---- MODULE Spec2Model ----
(***************************************************************************)
(* Plant identifier: the POST /api/identify handler of                     *)
(* src/app/api/identify/route.ts, its inference client callGeminiAPI with  *)
(* retry and model fallback, and the normalisation of the model's answer.  *)
(***************************************************************************)
EXTENDS Integers, Sequences, FiniteSets, TLC

(***************************************************************************)
(* Configuration                                                           *)
(***************************************************************************)
PRIMARY_MODEL == "gemini-2.5-flash"

FALLBACK_MODELS == <<"gemini-1.5-flash", "gemini-1.5-pro", "gemini-1.0-pro">>

modelsToTry == <<PRIMARY_MODEL>> \o FALLBACK_MODELS

maxRetries == 3

baseDelay == 1000

nextModelDelay == 500

maxSize == 7 * 1024 * 1024

allowedMimeTypes ==
  <<"image/png", "image/jpeg", "image/webp", "image/heic", "image/heif", "image/jpg">>

(***************************************************************************)
(* Small helpers                                                           *)
(***************************************************************************)
Range(s) == {s[i] : i \in 1..Len(s)}

RECURSIVE Pow2(_)
Pow2(n) == IF n = 0 THEN 1 ELSE 2 * Pow2(n - 1)

Null == [null |-> TRUE]

(***************************************************************************)
(* The uploaded file.  toLowerCase acts on the declared type.              *)
(***************************************************************************)
toLowerCase(t) ==
  CASE t = "IMAGE/PNG" -> "image/png"
    [] t = "Image/Jpeg" -> "image/jpeg"
    [] OTHER -> t

DeclaredTypes ==
  Range(allowedMimeTypes) \cup {"image/gif", "IMAGE/PNG", "Image/Jpeg", "application/pdf", ""}

FileSizes == {0, maxSize - 1, maxSize, maxSize + 1, 10 * 1024 * 1024}

\* What request.formData() and formData.get('image') give the handler.
Requests ==
  {[form |-> "throws"], [form |-> "nofile"], [form |-> "string"]}
    \cup {[form |-> "file", type |-> t, size |-> s, buffer |-> b] :
            t \in DeclaredTypes, s \in FileSizes, b \in {"ok", "throws"}}

(***************************************************************************)
(* Errors.  An error's message is known by its kind and by which of the    *)
(* substrings tested with includes() it contains.                          *)
(***************************************************************************)
\* Texts the upstream can put into an error message or an unparseable body.
UpstreamWords == {{}, {"overloaded"}, {"429"}, {"not found"}}

Err(name, words) == [name |-> name, words |-> words]

\* error.message.includes('overloaded') || includes('503') || includes('429')
IsRetryableMessage(err) == err.words \cap {"overloaded", "503", "429"} # {}

\* error.message.includes('not found')
IsNotFoundMessage(err) == "not found" \in err.words

(***************************************************************************)
(* Upstream answers to one fetch.  status 0 stands for fetch rejecting.    *)
(* A body is empty, a JSON object {error: {message}}, the JSON value null, *)
(* or text that JSON.parse rejects (the SyntaxError quotes the text).      *)
(***************************************************************************)
ErrorStatuses == {404, 429, 503, 500}

ErrorBodies ==
  {[kind |-> "empty", words |-> {}], [kind |-> "null", words |-> {}]}
    \cup {[kind |-> k, words |-> w] : k \in {"json", "text"}, w \in UpstreamWords}

\* A 2xx body that parses to an object carries in part what
\* candidates?.[0]?.content?.parts?.[0]?.text evaluates to (PartValues, below).
OkBodies(parts) ==
  {[kind |-> "text", words |-> w] : w \in UpstreamWords}
    \cup {[kind |-> "null", words |-> {}]}
    \cup {[kind |-> "json", words |-> {}, part |-> v] : v \in parts}

ResponsesWith(parts) ==
  {[status |-> 0, body |-> [kind |-> "empty", words |-> {}]]}
    \cup {[status |-> s, body |-> b] : s \in ErrorStatuses, b \in ErrorBodies}
    \cup {[status |-> 200, body |-> b] : b \in OkBodies(parts)}

ResponseOk(resp) == resp.status >= 200 /\ resp.status <= 299

(***************************************************************************)
(* callGeminiAPI, one call frame: the try block and the catch block.       *)
(* The result is a return, a retry of the same model after a sleep, or a   *)
(* throw.  `return callGeminiAPI(...)` is not awaited, so a rejection of   *)
(* the inner frame passes through the outer frames to the handler.         *)
(***************************************************************************)
Returned == [kind |-> "return"]

Retry(ms) == [kind |-> "retry", delay |-> ms]

Thrown(err) == [kind |-> "throw", err |-> err]

BackoffDelay(retryCount) == baseDelay * Pow2(retryCount)

\* Lines 123-145: the response is not ok.
NotOkBranch(retryCount, resp) ==
  IF resp.body.kind = "text"
    THEN Thrown(Err("SyntaxError", resp.body.words))            \* JSON.parse(errorText)
    ELSE IF resp.status = 503 \/ resp.status = 429
      THEN IF retryCount < maxRetries
             THEN Retry(BackoffDelay(retryCount))
             ELSE Thrown(Err("Overloaded", {"overloaded"}))
      ELSE IF resp.status = 404
        THEN Thrown(Err("NotFound", {"not found"}))
        ELSE IF resp.body.kind = "null"
          THEN Thrown(Err("TypeError", {}))                     \* errorData.error on null
          ELSE Thrown(Err("ApiError", resp.body.words))

\* Lines 114-150.
TryBlock(retryCount, resp) ==
  IF resp.status = 0
    THEN Thrown(Err("NetworkError", {}))                        \* fetch rejects
    ELSE IF ~ResponseOk(resp)
      THEN NotOkBranch(retryCount, resp)
      ELSE IF resp.body.kind = "text"
        THEN Thrown(Err("SyntaxError", resp.body.words))        \* response.json()
        ELSE Returned

\* CatchBlock retrying also when retryCount has reached maxRetries.
CatchBlockOneMore(retryCount, err) ==
  IF retryCount <= maxRetries /\ IsRetryableMessage(err)
    THEN Retry(BackoffDelay(retryCount))
    ELSE Thrown(err)

\* Lines 151-164.
CatchBlock(retryCount, err) ==
  IF retryCount < maxRetries /\ IsRetryableMessage(err)
    THEN Retry(BackoffDelay(retryCount))
    ELSE Thrown(err)

callGeminiAPI(retryCount, resp) ==
  LET t == TryBlock(retryCount, resp)
  IN IF t.kind = "throw" THEN CatchBlock(retryCount, t.err) ELSE t

(***************************************************************************)
(* Strings.  A string is a sequence of symbols; a symbol is one character  *)
(* or a word of Vocabulary, whose characters are not looked into.  The     *)
(* empty sequence is the empty string.  "<fence>" is the symbol of three   *)
(* backticks.                                                              *)
(***************************************************************************)
Vocabulary ==
  { [sym |-> "Aloe", lower |-> "aloe", len |-> 4],
    [sym |-> "aloe", lower |-> "aloe", len |-> 4],
    [sym |-> "Vera", lower |-> "vera", len |-> 4],
    [sym |-> "vera", lower |-> "vera", len |-> 4],
    [sym |-> "Fig", lower |-> "fig", len |-> 3],
    [sym |-> "fig", lower |-> "fig", len |-> 3],
    [sym |-> "Plant", lower |-> "plant", len |-> 5],
    [sym |-> "plant", lower |-> "plant", len |-> 5],
    [sym |-> "Unknown", lower |-> "unknown", len |-> 7],
    [sym |-> "unknown", lower |-> "unknown", len |-> 7],
    [sym |-> "species", lower |-> "species", len |-> 7],
    [sym |-> "family", lower |-> "family", len |-> 6],
    [sym |-> "Moraceae", lower |-> "moraceae", len |-> 8],
    [sym |-> "moraceae", lower |-> "moraceae", len |-> 8],
    [sym |-> "Indoor", lower |-> "indoor", len |-> 6],
    [sym |-> "indoor", lower |-> "indoor", len |-> 6],
    [sym |-> "Tropical", lower |-> "tropical", len |-> 8],
    [sym |-> "tropical", lower |-> "tropical", len |-> 8],
    [sym |-> "sun", lower |-> "sun", len |-> 3],
    [sym |-> "High", lower |-> "high", len |-> 4],
    [sym |-> "high", lower |-> "high", len |-> 4],
    [sym |-> "Medium", lower |-> "medium", len |-> 6],
    [sym |-> "Low", lower |-> "low", len |-> 3],
    [sym |-> "Certain", lower |-> "certain", len |-> 7],
    [sym |-> "json", lower |-> "json", len |-> 4],
    [sym |-> "<fence>", lower |-> "<fence>", len |-> 3],
    [sym |-> "true", lower |-> "true", len |-> 4],
    [sym |-> "false", lower |-> "false", len |-> 5],
    [sym |-> "null", lower |-> "null", len |-> 4],
    [sym |-> "commonName", lower |-> "commonname", len |-> 10],
    [sym |-> "scientificName", lower |-> "scientificname", len |-> 14],
    [sym |-> "identificationConfidence", lower |-> "identificationconfidence", len |-> 24],
    [sym |-> "imageCount", lower |-> "imagecount", len |-> 10],
    [sym |-> "warnings", lower |-> "warnings", len |-> 8],
    [sym |-> "Common", lower |-> "common", len |-> 6],
    [sym |-> "common", lower |-> "common", len |-> 6],
    [sym |-> "Scientific", lower |-> "scientific", len |-> 10],
    [sym |-> "scientific", lower |-> "scientific", len |-> 10],
    [sym |-> "name", lower |-> "name", len |-> 4],
    [sym |-> "Confidence", lower |-> "confidence", len |-> 10],
    [sym |-> "confidence", lower |-> "confidence", len |-> 10],
    [sym |-> "Here", lower |-> "here", len |-> 4],
    [sym |-> "is", lower |-> "is", len |-> 2],
    [sym |-> "the", lower |-> "the", len |-> 3] }

IsWord(sym) == \E w \in Vocabulary : w.sym = sym

WordOf(sym) == CHOOSE w \in Vocabulary : w.sym = sym

SymLower(sym) == IF IsWord(sym) THEN WordOf(sym).lower ELSE sym

SymLen(sym) == IF IsWord(sym) THEN WordOf(sym).len ELSE 1

\* String.prototype.toLowerCase
StrLower(s) == [i \in 1..Len(s) |-> SymLower(s[i])]

\* String.prototype.length
RECURSIVE StrLen(_)
StrLen(s) == IF s = <<>> THEN 0 ELSE SymLen(Head(s)) + StrLen(Tail(s))

\* String.prototype.split(' ')
RECURSIVE Split(_)
Split(s) ==
  LET sp == {i \in 1..Len(s) : s[i] = " "}
  IN IF sp = {}
       THEN <<s>>
       ELSE LET i == CHOOSE j \in sp : \A k \in sp : j <= k
            IN <<SubSeq(s, 1, i - 1)>> \o Split(SubSeq(s, i + 1, Len(s)))

\* String.prototype.includes(word) for a lower-case word of Vocabulary
StrIncludes(s, word) == \E i \in 1..Len(s) : s[i] = word

IsSpace(sym) == sym \in {" ", "\n", "\t"}

\* String.prototype.trim
RECURSIVE TrimStart(_)
TrimStart(s) == IF s # <<>> /\ IsSpace(Head(s)) THEN TrimStart(Tail(s)) ELSE s

RECURSIVE TrimEnd(_)
TrimEnd(s) ==
  IF s # <<>> /\ IsSpace(s[Len(s)]) THEN TrimEnd(SubSeq(s, 1, Len(s) - 1)) ELSE s

Trim(s) == TrimEnd(TrimStart(s))

(***************************************************************************)
(* JavaScript values, as JSON.parse gives them.  A number is the fraction  *)
(* num/den with den > 0; an object is the sequence of its members, a later *)
(* member of the same key winning.                                         *)
(***************************************************************************)
Undefined == [t |-> "undefined"]

JNull == [t |-> "null"]

JBool(b) == [t |-> "boolean", b |-> b]

JStr(s) == [t |-> "string", s |-> s]

JNum(num, den) == [t |-> "number", num |-> num, den |-> den]

JArr(a) == [t |-> "array", a |-> a]

JObj(o) == [t |-> "object", o |-> o]

Member(k, v) == [k |-> k, v |-> v]

\* value.key, for a value that is not null or undefined
Get(value, key) ==
  IF value.t # "object"
    THEN Undefined
    ELSE LET idx == {i \in 1..Len(value.o) : value.o[i].k = key}
         IN IF idx = {}
              THEN Undefined
              ELSE value.o[CHOOSE i \in idx : \A j \in idx : j <= i].v

IsString(v) == v.t = "string"

\* ToBoolean
Truthy(v) ==
  CASE v.t \in {"undefined", "null"} -> FALSE
    [] v.t = "boolean" -> v.b
    [] v.t = "string" -> v.s # <<>>
    [] v.t = "number" -> v.num # 0
    [] OTHER -> TRUE

\* array.filter(x => typeof x === 'string')
FilterStrings(a) == SelectSeq(a, IsString)

\* a || b on strings held as values
OrDefault(v, default) == IF Truthy(v) THEN v.s ELSE default

(***************************************************************************)
(* Numbers                                                                 *)
(***************************************************************************)
Num(k) == JNum(k, 1)

NumLess(a, b) == a.num * b.den < b.num * a.den

MathMax(a, b) == IF NumLess(a, b) THEN b ELSE a

MathMin(a, b) == IF NumLess(b, a) THEN b ELSE a

(***************************************************************************)
(* Partial<PlantInfo>: every key is present in the model, holding          *)
(* Undefined when the JavaScript object has no such property.              *)
(***************************************************************************)
S(word) == <<word>>

EmptyPartial ==
  [commonName |-> Undefined, scientificName |-> Undefined, family |-> Undefined,
   nativeRegion |-> Undefined, careRequirements |-> Undefined,
   growthCharacteristics |-> Undefined, interestingFacts |-> Undefined,
   warnings |-> Undefined, identificationConfidence |-> Undefined,
   similarPlants |-> Undefined, imageSearchTerms |-> Undefined,
   imageCount |-> Undefined]

ConfidenceLevels == {S("High"), S("Medium"), S("Low")}

\* typeof v === 'object'
TypeofObject(v) == v.t \in {"object", "array", "null"}

StringOrUndefined(v) == IF IsString(v) THEN v ELSE Undefined

StringOrEmpty(v) == IF IsString(v) THEN v ELSE JStr(<<>>)

StringsOrUndefined(v) == IF v.t = "array" THEN JArr(FilterStrings(v.a)) ELSE Undefined

\* parseGeminiJsonResponse, lines 502-555: the result built from the parsed value.
ResultOfParsed(parsed) ==
  LET care == Get(parsed, S("careRequirements"))
      growth == Get(parsed, S("growthCharacteristics"))
      conf == Get(parsed, S("identificationConfidence"))
      count == Get(parsed, S("imageCount"))
  IN [commonName |-> StringOrUndefined(Get(parsed, S("commonName"))),
      scientificName |-> StringOrUndefined(Get(parsed, S("scientificName"))),
      family |-> StringOrUndefined(Get(parsed, S("family"))),
      nativeRegion |-> StringOrUndefined(Get(parsed, S("nativeRegion"))),
      careRequirements |->
        IF Truthy(care) /\ TypeofObject(care)
          THEN [t |-> "care",
                watering |-> StringOrEmpty(Get(care, S("watering"))),
                sunlight |-> StringOrEmpty(Get(care, S("sunlight"))),
                soil |-> StringOrEmpty(Get(care, S("soil"))),
                temperature |-> StringOrEmpty(Get(care, S("temperature"))),
                humidity |-> StringOrEmpty(Get(care, S("humidity"))),
                fertilizing |-> StringOrEmpty(Get(care, S("fertilizing")))]
          ELSE Undefined,
      growthCharacteristics |->
        IF Truthy(growth) /\ TypeofObject(growth)
          THEN [t |-> "growth",
                size |-> StringOrEmpty(Get(growth, S("size"))),
                growthRate |-> StringOrEmpty(Get(growth, S("growthRate"))),
                lifespan |-> StringOrEmpty(Get(growth, S("lifespan")))]
          ELSE Undefined,
      interestingFacts |-> StringsOrUndefined(Get(parsed, S("interestingFacts"))),
      warnings |-> StringsOrUndefined(Get(parsed, S("warnings"))),
      identificationConfidence |->
        IF IsString(conf) /\ conf.s \in ConfidenceLevels THEN conf ELSE Undefined,
      similarPlants |-> StringsOrUndefined(Get(parsed, S("similarPlants"))),
      imageSearchTerms |-> StringsOrUndefined(Get(parsed, S("imageSearchTerms"))),
      imageCount |-> IF count.t = "number" THEN count ELSE Undefined]

(***************************************************************************)
(* generateImageSearchTerms.  terms is a JavaScript Set: insertion order,  *)
(* no duplicates.                                                          *)
(***************************************************************************)
AddTerm(terms, term) == IF term \in Range(terms) THEN terms ELSE Append(terms, term)

RECURSIVE AddLongParts(_, _)
AddLongParts(terms, parts) ==
  IF parts = <<>>
    THEN terms
    ELSE AddLongParts(IF StrLen(Head(parts)) > 3 THEN AddTerm(terms, Head(parts)) ELSE terms,
                      Tail(parts))

AddIf(cond, terms, term) == IF cond THEN AddTerm(terms, term) ELSE terms

generateImageSearchTerms(commonName, scientificName, family, sunlight) ==
  LET t1 == IF commonName # <<>> /\ commonName # S("Plant")
              THEN AddLongParts(AddTerm(<<>>, StrLower(commonName)),
                                Split(StrLower(commonName)))
              ELSE <<>>
      t2 == IF Truthy(scientificName) /\ scientificName.s # <<"Unknown", " ", "species">>
              THEN AddLongParts(t1, Split(StrLower(scientificName.s)))
              ELSE t1
      t3 == IF Truthy(family) /\ family.s # <<"Unknown", " ", "family">>
              THEN AddTerm(t2, StrLower(family.s))
              ELSE t2
      sun == IF Truthy(sunlight) THEN StrLower(sunlight.s) ELSE <<>>
      t4 == AddIf(StrIncludes(sun, "indoor"), t3, S("indoor plant"))
      t5 == AddIf(StrIncludes(sun, "outdoor"), t4, S("outdoor plant"))
      t6 == IF StrIncludes(sun, "succulent") \/ StrIncludes(sun, "cactus")
              THEN AddTerm(AddTerm(t5, S("succulent")), S("cactus"))
              ELSE t5
      t7 == AddIf(StrIncludes(sun, "tropical"), t6, S("tropical plant"))
      t8 == AddTerm(AddTerm(AddTerm(AddTerm(t7, S("plant")), S("foliage")),
                            S("greenery")), S("botanical"))
      result == IF Len(t8) < 3
                  THEN t8 \o <<S("nature"), S("garden"), S("horticulture")>>
                  ELSE t8
  IN SubSeq(result, 1, IF Len(result) < 5 THEN Len(result) ELSE 5)

(***************************************************************************)
(* POST, lines 317-370: the validated PlantInfo.                           *)
(***************************************************************************)
Strings(arr) == [i \in 1..Len(arr.a) |-> arr.a[i].s]

\* Sub giving a sub-field only when the object has every sub-field.
SubWhenComplete(obj, field) ==
  IF obj.t = "undefined" \/ (\E k \in DOMAIN obj \ {"t"} : obj[k].s = <<>>)
    THEN Undefined
    ELSE obj[field]

\* parsedData.careRequirements?.field and parsedData.growthCharacteristics?.field
Sub(obj, field) == IF obj.t = "undefined" THEN Undefined ELSE obj[field]

\* ArrayOrDefault without the test of the length: an array of any length is kept.
ArrayOrDefaultAnyLength(v, min, default) ==
  IF v.t = "array" THEN Strings(v) ELSE default

\* ArrayOrDefault filling a short array up with entries of the default.
ArrayOrDefaultPadded(v, min, default) ==
  IF v.t = "array"
    THEN IF Len(v.a) >= min
           THEN Strings(v)
           ELSE Strings(v) \o SubSeq(default, Len(v.a) + 1, Len(default))
    ELSE default

\* Array.isArray(x) && x.length >= min ? x : default
ArrayOrDefault(v, min, default) ==
  IF v.t = "array" /\ Len(v.a) >= min THEN Strings(v) ELSE default

Clock == "clock"

validatedPlantInfo(parsedData, modelUsed) ==
  LET care == parsedData.careRequirements
      growth == parsedData.growthCharacteristics
      conf == parsedData.identificationConfidence
      count == parsedData.imageCount
      imageSearchTerms ==
        generateImageSearchTerms(OrDefault(parsedData.commonName, S("plant")),
                                 parsedData.scientificName, parsedData.family,
                                 Sub(care, "sunlight"))
  IN [commonName |-> OrDefault(parsedData.commonName, S("Plant")),
      scientificName |-> OrDefault(parsedData.scientificName, <<"Unknown", " ", "species">>),
      family |-> OrDefault(parsedData.family, <<"Unknown", " ", "family">>),
      nativeRegion |-> OrDefault(parsedData.nativeRegion, S("Unknown")),
      careRequirements |->
        [watering |-> OrDefault(Sub(care, "watering"), S("Water when top inch of soil is dry")),
         sunlight |-> OrDefault(Sub(care, "sunlight"), S("Bright indirect light")),
         soil |-> OrDefault(Sub(care, "soil"), S("Well-draining potting mix")),
         temperature |-> OrDefault(Sub(care, "temperature"), S("65-80F (18-27C)")),
         humidity |-> OrDefault(Sub(care, "humidity"), S("Moderate humidity")),
         fertilizing |-> OrDefault(Sub(care, "fertilizing"), S("Monthly during growing season"))],
      growthCharacteristics |->
        [size |-> OrDefault(Sub(growth, "size"), S("Varies by species")),
         growthRate |-> OrDefault(Sub(growth, "growthRate"), S("Moderate")),
         lifespan |-> OrDefault(Sub(growth, "lifespan"), S("Perennial"))],
      interestingFacts |->
        ArrayOrDefault(parsedData.interestingFacts, 3,
                       <<S("Plants help purify indoor air"),
                         S("Can improve mental well-being"),
                         S("Convert CO2 to oxygen")>>),
      warnings |->
        ArrayOrDefault(parsedData.warnings, 1,
                       <<S("Always verify plant identification"),
                         S("Wash hands after handling")>>),
      identificationConfidence |->
        IF Truthy(conf) /\ conf.s \in ConfidenceLevels THEN conf.s ELSE S("Medium"),
      similarPlants |->
        ArrayOrDefault(parsedData.similarPlants, 1, <<S("Various ornamental plants")>>),
      imageSearchTerms |-> ArrayOrDefault(parsedData.imageSearchTerms, 1, imageSearchTerms),
      imageCount |->
        IF count.t = "number" /\ NumLess(Num(0), count)
          THEN MathMin(MathMax(count, Num(4)), Num(8))
          ELSE Num(6),
      modelUsed |-> modelUsed,
      analysisTimestamp |-> Clock,
      responseTime |-> Clock]

(***************************************************************************)
(* JSON.parse on a string of symbols.  Each parsing operator gives         *)
(* [ok, v, i]: whether it succeeded, the value, and the index after it.    *)
(***************************************************************************)
Failed == [ok |-> FALSE, v |-> Undefined, i |-> 0]

Parsed(v, i) == [ok |-> TRUE, v |-> v, i |-> i]

Digits == <<"0", "1", "2", "3", "4", "5", "6", "7", "8", "9">>

IsDigit(sym) == sym \in Range(Digits)

DigitValue(sym) == (CHOOSE d \in 1..10 : Digits[d] = sym) - 1

At(t, i) == IF i >= 1 /\ i <= Len(t) THEN t[i] ELSE "<end>"

RECURSIVE SkipSpace(_, _)
SkipSpace(t, i) == IF i <= Len(t) /\ IsSpace(t[i]) THEN SkipSpace(t, i + 1) ELSE i

\* The characters of a string literal, from the index after its opening quote.
RECURSIVE ParseString(_, _, _)
ParseString(t, i, acc) ==
  LET c == At(t, i)
  IN CASE i > Len(t) -> Failed
       [] c = "\"" -> Parsed(JStr(acc), i + 1)
       [] c = "\\" ->
            IF At(t, i + 1) \in {"\"", "\\", "/"}
              THEN ParseString(t, i + 2, Append(acc, t[i + 1]))
              ELSE Failed
       [] c \in {"\n", "\t"} -> Failed
       [] OTHER -> ParseString(t, i + 1, Append(acc, c))

\* A run of digits from index i: [n, scale, i], scale = 10^(number of digits).
RECURSIVE ParseDigits(_, _, _, _)
ParseDigits(t, i, n, scale) ==
  IF IsDigit(At(t, i))
    THEN ParseDigits(t, i + 1, 10 * n + DigitValue(t[i]), 10 * scale)
    ELSE [n |-> n, scale |-> scale, i |-> i]

ParseNumber(t, i) ==
  LET neg == At(t, i) = "-"
      j == IF neg THEN i + 1 ELSE i
      int == IF At(t, j) = "0"
               THEN [n |-> 0, scale |-> 10, i |-> j + 1]
               ELSE ParseDigits(t, j, 0, 1)
      frac == IF At(t, int.i) = "." THEN ParseDigits(t, int.i + 1, 0, 1) ELSE int
      sign == IF neg THEN -1 ELSE 1
  IN IF int.i = j \/ (At(t, int.i) = "." /\ frac.i = int.i + 1)
       THEN Failed
       ELSE IF At(t, int.i) = "."
              THEN Parsed(JNum(sign * (int.n * frac.scale + frac.n), frac.scale), frac.i)
              ELSE Parsed(JNum(sign * int.n, 1), int.i)

RECURSIVE ParseValue(_, _)
RECURSIVE ParseMembers(_, _, _)
RECURSIVE ParseElements(_, _, _)

\* The members of an object, from the index of the first key.
ParseMembers(t, i, acc) ==
  LET j == SkipSpace(t, i)
      key == IF At(t, j) = "\"" THEN ParseString(t, j + 1, <<>>) ELSE Failed
      k == SkipSpace(t, key.i)
      val == IF key.ok /\ At(t, k) = ":" THEN ParseValue(t, k + 1) ELSE Failed
      m == SkipSpace(t, val.i)
      members == Append(acc, Member(key.v.s, val.v))
  IN IF ~val.ok
       THEN Failed
       ELSE CASE At(t, m) = "," -> ParseMembers(t, m + 1, members)
              [] At(t, m) = "}" -> Parsed(JObj(members), m + 1)
              [] OTHER -> Failed

\* The elements of an array, from the index of the first element.
ParseElements(t, i, acc) ==
  LET val == ParseValue(t, i)
      m == SkipSpace(t, val.i)
      elements == Append(acc, val.v)
  IN IF ~val.ok
       THEN Failed
       ELSE CASE At(t, m) = "," -> ParseElements(t, m + 1, elements)
              [] At(t, m) = "]" -> Parsed(JArr(elements), m + 1)
              [] OTHER -> Failed

ParseValue(t, i) ==
  LET j == SkipSpace(t, i)
      c == At(t, j)
  IN CASE c = "{" ->
            IF At(t, SkipSpace(t, j + 1)) = "}"
              THEN Parsed(JObj(<<>>), SkipSpace(t, j + 1) + 1)
              ELSE ParseMembers(t, j + 1, <<>>)
       [] c = "[" ->
            IF At(t, SkipSpace(t, j + 1)) = "]"
              THEN Parsed(JArr(<<>>), SkipSpace(t, j + 1) + 1)
              ELSE ParseElements(t, j + 1, <<>>)
       [] c = "\"" -> ParseString(t, j + 1, <<>>)
       [] c = "-" \/ IsDigit(c) -> ParseNumber(t, j)
       [] c = "true" -> Parsed(JBool(TRUE), j + 1)
       [] c = "false" -> Parsed(JBool(FALSE), j + 1)
       [] c = "null" -> Parsed(JNull, j + 1)
       [] OTHER -> Failed

\* JSON.parse(text): [ok, v]; ok is FALSE where JSON.parse throws.
JSONparse(t) ==
  LET r == ParseValue(t, 1)
  IN IF r.ok /\ SkipSpace(t, r.i) > Len(t) THEN r ELSE Failed

(***************************************************************************)
(* parseGeminiJsonResponse                                                 *)
(***************************************************************************)
First(set) == CHOOSE i \in set : \A j \in set : i <= j

Last(set) == CHOOSE i \in set : \A j \in set : j <= i

\* JsonMatch matching only a text that is an object from its first character
\* to its last.
JsonMatchWholeText(text) ==
  [found |-> text # <<>> /\ text[1] = "{" /\ text[Len(text)] = "}", s |-> text]

\* text.match(/\{[\s\S]*\}/): from the first "{" to the last "}" after it.
JsonMatch(text) ==
  LET open == {i \in 1..Len(text) : text[i] = "{"}
      close == {i \in 1..Len(text) : text[i] = "}"}
  IN IF open = {} \/ close = {} \/ Last(close) < First(open)
       THEN [found |-> FALSE, s |-> <<>>]
       ELSE [found |-> TRUE, s |-> SubSeq(text, First(open), Last(close))]

\* .replace(/```json|```/g, '')
RECURSIVE StripFences(_)
StripFences(t) ==
  CASE t = <<>> -> <<>>
    [] t # <<>> /\ Head(t) = "<fence>" /\ At(t, 2) = "json" -> StripFences(SubSeq(t, 3, Len(t)))
    [] t # <<>> /\ Head(t) = "<fence>" /\ At(t, 2) # "json" -> StripFences(Tail(t))
    [] OTHER -> <<Head(t)>> \o StripFences(Tail(t))

\* .replace(/,\s*X/g, 'X') for X one of "}" and "]"
RECURSIVE StripCommaBefore(_, _)
StripCommaBefore(t, closer) ==
  CASE t = <<>> -> <<>>
    [] t # <<>> /\ Head(t) = "," /\ At(t, SkipSpace(t, 2)) = closer ->
         <<closer>> \o StripCommaBefore(SubSeq(t, SkipSpace(t, 2) + 1, Len(t)), closer)
    [] OTHER -> <<Head(t)>> \o StripCommaBefore(Tail(t), closer)

CleanText(matched) ==
  Trim(StripCommaBefore(StripCommaBefore(StripFences(matched), "}"), "]"))

\* [ok, result]: ok is FALSE where the function throws.
parseGeminiJsonResponse(text) ==
  LET m == JsonMatch(text)
      parsed == JSONparse(CleanText(m.s))
  IN IF ~m.found \/ ~parsed.ok \/ parsed.v.t = "null"
       THEN [ok |-> FALSE, result |-> EmptyPartial]
       ELSE [ok |-> TRUE, result |-> ResultOfParsed(parsed.v)]

(***************************************************************************)
(* extractPlantInfoFromText                                                *)
(***************************************************************************)
NoMatch == [found |-> FALSE, group |-> <<>>]

\* Character classes of the patterns: [^"], [^.] and [:\s].
InClass(sym, class) ==
  CASE class = "notquote" -> sym # "\""
    [] class = "notperiod" -> sym # "."
    [] OTHER -> sym = ":" \/ IsSpace(sym)

\* The index after the longest run of symbols of the class from index i.
RECURSIVE RunEnd(_, _, _)
RunEnd(t, i, class) ==
  IF i <= Len(t) /\ InClass(t[i], class) THEN RunEnd(t, i + 1, class) ELSE i

\* /"key"\s*:\s*"([^"]+)"/ tried at index i
KeyedAt(t, i, key) ==
  LET c == SkipSpace(t, i + 3)
      q == SkipSpace(t, c + 1)
      e == RunEnd(t, q + 1, "notquote")
  IN IF At(t, i) = "\"" /\ At(t, i + 1) = key /\ At(t, i + 2) = "\"" /\ At(t, c) = ":"
        /\ At(t, q) = "\"" /\ e > q + 1 /\ At(t, e) = "\""
       THEN [found |-> TRUE, group |-> SubSeq(t, q + 1, e - 1)]
       ELSE NoMatch

\* text.match(/"key"\s*:\s*"([^"]+)"/): the leftmost match
MatchKeyed(t, key) ==
  LET at == {i \in 1..Len(t) : KeyedAt(t, i, key).found}
  IN IF at = {} THEN NoMatch ELSE KeyedAt(t, First(at), key)

\* /first second[:\s]+([^.]+)/i tried at index i; [:\s]+ gives one symbol back
\* when nothing but a period or the end follows it.
ProseAt(t, i, first, second) ==
  LET p == i + 3
      q == RunEnd(t, p, "colonspace")
      e == RunEnd(t, q, "notperiod")
  IN IF SymLower(At(t, i)) = first /\ At(t, i + 1) = " " /\ SymLower(At(t, i + 2)) = second
        /\ q > p
       THEN IF e > q
              THEN [found |-> TRUE, group |-> SubSeq(t, q, e - 1)]
              ELSE IF q > p + 1
                     THEN [found |-> TRUE, group |-> <<t[q - 1]>>]
                     ELSE NoMatch
       ELSE NoMatch

MatchProse(t, first, second) ==
  LET at == {i \in 1..Len(t) : ProseAt(t, i, first, second).found}
  IN IF at = {} THEN NoMatch ELSE ProseAt(t, First(at), first, second)

\* Symbols whose characters end with "confidence", whatever the case.
EndsWithConfidence(sym) ==
  SymLower(sym) \in {"confidence", "identificationconfidence"}

\* /confidence[:\s]+(High|Medium|Low)/i tried at index i
ConfidenceAt(t, i) ==
  LET q == RunEnd(t, i + 1, "colonspace")
  IN IF EndsWithConfidence(At(t, i)) /\ q > i + 1
        /\ SymLower(At(t, q)) \in {"high", "medium", "low"}
       THEN [found |-> TRUE, group |-> <<t[q]>>]
       ELSE NoMatch

MatchConfidence(t) ==
  LET at == {i \in 1..Len(t) : ConfidenceAt(t, i).found}
  IN IF at = {} THEN NoMatch ELSE ConfidenceAt(t, First(at))

\* a || b on match results
OrMatch(a, b) == IF a.found THEN a ELSE b

\* extractPlantInfoFromText without the test of the captured confidence
\* against the three levels (line 573).
extractPlantInfoFromTextUnchecked(text) ==
  LET commonNameMatch ==
        OrMatch(MatchKeyed(text, "commonName"), MatchProse(text, "common", "name"))
      sciNameMatch ==
        OrMatch(MatchKeyed(text, "scientificName"), MatchProse(text, "scientific", "name"))
      confidenceMatch ==
        OrMatch(MatchKeyed(text, "identificationConfidence"), MatchConfidence(text))
  IN [EmptyPartial EXCEPT
        !.commonName =
          IF commonNameMatch.found THEN JStr(Trim(commonNameMatch.group)) ELSE Undefined,
        !.scientificName =
          IF sciNameMatch.found THEN JStr(Trim(sciNameMatch.group)) ELSE Undefined,
        !.identificationConfidence =
          IF confidenceMatch.found THEN JStr(confidenceMatch.group) ELSE Undefined]

extractPlantInfoFromText(text) ==
  LET commonNameMatch ==
        OrMatch(MatchKeyed(text, "commonName"), MatchProse(text, "common", "name"))
      sciNameMatch ==
        OrMatch(MatchKeyed(text, "scientificName"), MatchProse(text, "scientific", "name"))
      confidenceMatch ==
        OrMatch(MatchKeyed(text, "identificationConfidence"), MatchConfidence(text))
  IN [EmptyPartial EXCEPT
        !.commonName =
          IF commonNameMatch.found THEN JStr(Trim(commonNameMatch.group)) ELSE Undefined,
        !.scientificName =
          IF sciNameMatch.found THEN JStr(Trim(sciNameMatch.group)) ELSE Undefined,
        !.identificationConfidence =
          IF confidenceMatch.found /\ confidenceMatch.group \in ConfidenceLevels
            THEN JStr(confidenceMatch.group)
            ELSE Undefined]

(***************************************************************************)
(* Texts the model can generate.                                           *)
(***************************************************************************)
Q == "\""

Quoted(str) == <<Q>> \o str \o <<Q>>

Pair(key, valueText) == Quoted(S(key)) \o <<":">> \o valueText

\* {}
TextEmptyObject == <<"{", "}">>

\* {"commonName":"Aloe"}
TextAloe == <<"{">> \o Pair("commonName", Quoted(S("Aloe"))) \o <<"}">>

\* {"commonName":"Aloe Vera","scientificName":"Aloe vera",
\*  "identificationConfidence":"High","imageCount":12}
TextRich ==
  <<"{">> \o Pair("commonName", Quoted(<<"Aloe", " ", "Vera">>)) \o <<",">>
    \o Pair("scientificName", Quoted(<<"Aloe", " ", "vera">>)) \o <<",">>
    \o Pair("identificationConfidence", Quoted(S("High"))) \o <<",">>
    \o Pair("imageCount", <<"1", "2">>) \o <<"}">>

\* Here is the plant: ```json\n{"commonName":"Aloe"}\n```
TextFenced ==
  <<"Here", " ", "is", " ", "the", " ", "plant", ":", " ", "<fence>", "json", "\n">>
    \o TextAloe \o <<"\n", "<fence>">>

\* {commonName: 'Aloe', scientificName: 'Aloe vera',}
TextSingleQuoted ==
  <<"{", "commonName", ":", " ", "'", "Aloe", "'", ",", " ", "scientificName", ":", " ",
    "'", "Aloe", " ", "vera", "'", ",", "}">>

\* Common name: Aloe vera. Scientific name: Aloe vera. Confidence: High.
TextProse ==
  <<"Common", " ", "name", ":", " ", "Aloe", " ", "vera", ".", " ",
    "Scientific", " ", "name", ":", " ", "Aloe", " ", "vera", ".", " ",
    "Confidence", ":", " ", "High", ".">>

\* {"commonName": "Fig", "identificationConfidence": "Certain",     (cut short)
TextTruncated ==
  <<"{">> \o Pair("commonName", <<" ">> \o Quoted(S("Fig"))) \o <<",", " ">>
    \o Pair("identificationConfidence", <<" ">> \o Quoted(S("Certain"))) \o <<",">>

\* {"commonName": 5, "warnings": [5, "Low"], "imageCount": "6"}
TextWrongTypes ==
  <<"{">> \o Pair("commonName", <<" ", "5">>) \o <<",", " ">>
    \o Pair("warnings", <<" ", "[", "5", ",", " ">> \o Quoted(S("Low")) \o <<"]">>)
    \o <<",", " ">> \o Pair("imageCount", <<" ">> \o Quoted(S("6"))) \o <<"}">>

\* {"commonName": "Fig", identificationConfidence: high}
TextBareConfidence ==
  <<"{">> \o Pair("commonName", <<" ">> \o Quoted(S("Fig"))) \o <<",", " ">>
    \o <<"identificationConfidence", ":", " ", "high", "}">>

Texts ==
  {TextEmptyObject, TextAloe, TextRich, TextFenced, TextSingleQuoted, TextProse,
   TextTruncated, TextWrongTypes, TextBareConfidence}

\* The texts the upstream answers with in the runs of the handler.
AnswerTexts == {TextAloe, TextFenced, TextSingleQuoted, TextProse}

\* What candidates?.[0]?.content?.parts?.[0]?.text can evaluate to.
PartValues == {Undefined, JStr(<<>>), Num(5)} \cup {JStr(t) : t \in AnswerTexts}

Responses == ResponsesWith(PartValues)

(***************************************************************************)
(* State of one POST request.                                              *)
(*   request      what the client sent; the handler has read it once it    *)
(*                holds the image as base64Image                           *)
(*   pc           where the handler is suspended: "start", at the fetch of *)
(*                callGeminiAPI ("fetch"), in its backoff sleep            *)
(*                ("backoff"), in the handler's sleep(500) ("wait"), or    *)
(*                returned ("done")                                        *)
(*   modelIdx     position of the for-of loop in modelsToTry               *)
(*   retryCount   retryCount of the innermost callGeminiAPI frame          *)
(*   delay        milliseconds of the sleep the handler is suspended in    *)
(*   lastError    the handler's lastError                                  *)
(*   apiResult    the handler's apiResult                                  *)
(*   response     the NextResponse returned                                *)
(* Observations of the run, written by no handler code:                    *)
(*   calls        number of fetches sent upstream                          *)
(*   cur          the fetches of the model now being tried: their number,  *)
(*                how many of them in a row from the first were answered   *)
(*                429 or 503, the backoff sleeps between them, the status  *)
(*                of the last answer                                       *)
(*   failed       the models whose callGeminiAPI has rejected              *)
(*   tried        the models called, in order of their first call          *)
(*   scenario     how many answers of FallbackScenario the answers so far  *)
(*                match, -1 once they differ from it                       *)
(*   okSeen       whether some fetch was answered with a 2xx status        *)
(***************************************************************************)
VARIABLES request, pc, modelIdx, retryCount, delay, lastError, apiResult, response,
          calls, cur, failed, tried, scenario, okSeen, parsed, edits,
          conc, img, page

vars == <<request, pc, modelIdx, retryCount, delay, lastError, apiResult, response,
          calls, cur, failed, tried, scenario, okSeen, parsed, edits,
          conc, img, page>>

\* The handler's variables but the position and the response.
handlerVars == <<request, modelIdx, retryCount, delay, lastError, apiResult,
                 calls, cur, failed, tried, scenario, okSeen>>

Read == [form |-> "read"]

NoCalls == [n |-> 0, overloads |-> 0, sleeps |-> <<>>, last |-> -1]

IsOverload(status) == status = 503 \/ status = 429

\* The observation of one more fetch of the current model and of its answer.
Observe(c, resp) ==
  [c EXCEPT !.n = @ + 1,
            !.overloads = IF IsOverload(resp.status) /\ c.overloads = c.n
                            THEN @ + 1 ELSE @,
            !.last = resp.status]

FallbackScenario == <<404, 404, 200>>

ObserveScenario(n, resp) ==
  IF n >= 0 /\ n < Len(FallbackScenario) /\ FallbackScenario[n + 1] = resp.status
    THEN n + 1
    ELSE -1

(***************************************************************************)
(* The responses of POST                                                   *)
(***************************************************************************)
BadRequest(message) == [status |-> 400, body |-> [error |-> message]]

\* ServiceUnavailable without the placeholder record.
ServiceUnavailableBare(err) ==
  [status |-> 503,
   body |->
     [success |-> FALSE,
      error |-> "All Gemini models are currently unavailable",
      message |-> err,
      model |-> "None",
      responseTime |-> Clock,
      timestamp |-> Clock]]

\* Lines 268-300.
ServiceUnavailable(err) ==
  [status |-> 503,
   body |->
     [success |-> FALSE,
      error |-> "All Gemini models are currently unavailable",
      message |-> err,
      model |-> "None",
      responseTime |-> Clock,
      timestamp |-> Clock,
      data |->
        [commonName |-> S("Service Unavailable"),
         scientificName |-> S("N/A"),
         family |-> S("Unknown"),
         nativeRegion |-> S("Unknown"),
         careRequirements |->
           [watering |-> S("Gemini API is currently overloaded"),
            sunlight |-> S("Please try again in a few minutes"),
            soil |-> S("The AI service is experiencing high demand"),
            temperature |-> S("Temporary service interruption"),
            humidity |-> S("Try during off-peak hours"),
            fertilizing |-> S("Check back soon")],
         growthCharacteristics |->
           [size |-> S("Unknown"), growthRate |-> S("Unknown"), lifespan |-> S("Unknown")],
         interestingFacts |->
           <<S("AI services can experience temporary overload"),
             S("Try again in 5-10 minutes"),
             S("Consider uploading during less busy hours")>>,
         warnings |-> <<S("Service temporarily unavailable")>>,
         identificationConfidence |-> S("Low"),
         similarPlants |-> <<S("Unknown")>>,
         imageSearchTerms |-> <<S("plant"), S("nature"), S("green")>>,
         imageCount |-> Num(4)]]]

\* Lines 375-381.
Success(modelUsed, parsedData) ==
  [status |-> 200,
   body |->
     [success |-> TRUE,
      model |-> modelUsed,
      responseTime |-> Clock,
      timestamp |-> Clock,
      data |-> validatedPlantInfo(parsedData, modelUsed)]]

\* ProcessingError without the placeholder record.
ProcessingErrorBare(err) ==
  [status |-> 500,
   body |->
     [success |-> FALSE,
      error |-> "Failed to process image",
      message |-> err,
      model |-> "Error",
      responseTime |-> Clock,
      timestamp |-> Clock]]

\* Lines 383-421.
ProcessingError(err) ==
  [status |-> 500,
   body |->
     [success |-> FALSE,
      error |-> "Failed to process image",
      message |-> err,
      model |-> "Error",
      responseTime |-> Clock,
      timestamp |-> Clock,
      data |->
        [commonName |-> S("Processing Error"),
         scientificName |-> S("N/A"),
         family |-> S("Unknown"),
         nativeRegion |-> S("Unknown"),
         careRequirements |->
           [watering |-> S("Error occurred"),
            sunlight |-> S("Error occurred"),
            soil |-> S("Error occurred"),
            temperature |-> S("Error occurred"),
            humidity |-> S("Error occurred"),
            fertilizing |-> S("Error occurred")],
         growthCharacteristics |->
           [size |-> S("Unknown"), growthRate |-> S("Unknown"), lifespan |-> S("Unknown")],
         interestingFacts |->
           <<S("An error occurred"), S("Please try again"), S("Check your connection")>>,
         warnings |-> <<S("Service error - try again")>>,
         identificationConfidence |-> S("Low"),
         similarPlants |-> <<S("Unknown")>>,
         imageSearchTerms |-> <<S("plant"), S("nature"), S("green")>>,
         imageCount |-> Num(4),
         note |-> err]]]

(***************************************************************************)
(* POST, lines 303-381: from the API result to the response.               *)
(***************************************************************************)
\* TextOf without the empty object in place of a missing or empty text.
TextOfAsGiven(body) == body.part

\* data.candidates?.[0]?.content?.parts?.[0]?.text || '{}'
TextOf(body) == IF Truthy(body.part) THEN body.part ELSE JStr(TextEmptyObject)

\* Lines 310-315.
ParsedDataOf(text) ==
  LET p == parseGeminiJsonResponse(text)
  IN IF p.ok THEN p.result ELSE extractPlantInfoFromText(text)

\* RespondTo without the fallback of lines 313-315: the failure of
\* parseGeminiJsonResponse reaches the catch block of POST.
RespondToWithoutFallback(body, modelUsed) ==
  IF body.kind = "null"
    THEN ProcessingError(Err("TypeError", {}))
    ELSE IF ~IsString(TextOf(body))
      THEN ProcessingError(Err("TypeError", {}))
      ELSE IF parseGeminiJsonResponse(TextOf(body).s).ok
        THEN Success(modelUsed, parseGeminiJsonResponse(TextOf(body).s).result)
        ELSE ProcessingError(Err("Error", {}))

RespondTo(body, modelUsed) ==
  IF body.kind = "null"
    THEN ProcessingError(Err("TypeError", {}))          \* data.candidates on null
    ELSE IF ~IsString(TextOf(body))
      THEN ProcessingError(Err("TypeError", {}))        \* text.match is not a function
      ELSE Success(modelUsed, ParsedDataOf(TextOf(body).s))

(***************************************************************************)
(* POST, lines 170-199: the request is read and validated.                 *)
(***************************************************************************)
normalizedMimeType(type) ==
  IF toLowerCase(type) = "image/jpg" THEN "image/jpeg" ELSE toLowerCase(type)

\* Ingress without the test of the size (lines 190-195).
IngressAnySize(req) ==
  CASE req.form = "throws" -> ProcessingError(Err("FormDataError", {}))
    [] req.form = "nofile" -> BadRequest("No image file provided")
    [] req.form = "string" -> ProcessingError(Err("TypeError", {}))
    [] OTHER ->
         IF normalizedMimeType(req.type) \notin Range(allowedMimeTypes)
           THEN BadRequest("Unsupported image format")
           ELSE IF req.buffer = "throws"
             THEN ProcessingError(Err("BufferError", {}))
             ELSE Null

\* Ingress rejecting a file of maxSize bytes too.
IngressSizeInclusive(req) ==
  CASE req.form = "throws" -> ProcessingError(Err("FormDataError", {}))
    [] req.form = "nofile" -> BadRequest("No image file provided")
    [] req.form = "string" -> ProcessingError(Err("TypeError", {}))
    [] OTHER ->
         IF normalizedMimeType(req.type) \notin Range(allowedMimeTypes)
           THEN BadRequest("Unsupported image format")
           ELSE IF req.size >= maxSize
             THEN BadRequest("Image file too large")
             ELSE IF req.buffer = "throws"
               THEN ProcessingError(Err("BufferError", {}))
               ELSE Null

\* The response the handler returns before any upstream call, or Null.
Ingress(req) ==
  CASE req.form = "throws" -> ProcessingError(Err("FormDataError", {}))
    [] req.form = "nofile" -> BadRequest("No image file provided")
    [] req.form = "string" -> ProcessingError(Err("TypeError", {}))
    [] OTHER ->
         IF normalizedMimeType(req.type) \notin Range(allowedMimeTypes)
           THEN BadRequest("Unsupported image format")
           ELSE IF req.size > maxSize
             THEN BadRequest("Image file too large")
             ELSE IF req.buffer = "throws"
               THEN ProcessingError(Err("BufferError", {}))
               ELSE Null

(***************************************************************************)
(* Actions                                                                 *)
(***************************************************************************)
Init ==
  /\ request \in Requests
  /\ pc = "start"
  /\ modelIdx = 0
  /\ retryCount = 0
  /\ delay = 0
  /\ lastError = Null
  /\ apiResult = Null
  /\ response = Null
  /\ calls = 0
  /\ cur = NoCalls
  /\ failed = {}
  /\ tried = <<>>
  /\ scenario = 0
  /\ okSeen = FALSE
  /\ parsed = Null
  /\ edits = 0
  /\ conc = Null
  /\ img = Null
  /\ page = Null

\* From the start of POST to its first await of fetch, or to an early return.
Receive ==
  /\ pc = "start"
  /\ IF Ingress(request) = Null
       THEN /\ pc' = "fetch"
            /\ modelIdx' = 1
            /\ request' = Read
            /\ response' = response
       ELSE /\ pc' = "done"
            /\ modelIdx' = modelIdx
            /\ request' = request
            /\ response' = Ingress(request)
  /\ UNCHANGED <<retryCount, delay, lastError, apiResult, calls, cur, failed, tried,
                 scenario, okSeen, parsed, edits, conc, img, page>>

\* NextModel stepping over a model of the list.
NextModelSkipping(err) ==
  /\ cur' = NoCalls
  /\ delay' = 0
  /\ IF modelIdx + 1 < Len(modelsToTry)
       THEN /\ modelIdx' = modelIdx + 2
            /\ retryCount' = 0
            /\ pc' = "fetch"
            /\ response' = response
       ELSE /\ modelIdx' = modelIdx
            /\ retryCount' = retryCount
            /\ pc' = "done"
            /\ response' = ServiceUnavailable(err)

\* The for-of loop goes on to the next model (lines 246-262), or ends and
\* the handler answers 503 (lines 264-301).
NextModel(err) ==
  /\ cur' = NoCalls
  /\ delay' = 0
  /\ IF modelIdx < Len(modelsToTry)
       THEN /\ modelIdx' = modelIdx + 1
            /\ retryCount' = 0
            /\ pc' = "fetch"
            /\ response' = response
       ELSE /\ modelIdx' = modelIdx
            /\ retryCount' = retryCount
            /\ pc' = "done"
            /\ response' = ServiceUnavailable(err)

\* fetch settles with resp: callGeminiAPI runs to its next await or to its end,
\* and the handler with it.
Fetch(resp) ==
  /\ pc = "fetch"
  /\ calls' = calls + 1
  /\ scenario' = ObserveScenario(scenario, resp)
  /\ okSeen' = (okSeen \/ ResponseOk(resp))
  /\ tried' = IF tried # <<>> /\ tried[Len(tried)] = modelIdx
                THEN tried
                ELSE Append(tried, modelIdx)
  /\ request' = request
  /\ UNCHANGED <<parsed, edits, conc, img, page>>
  /\ LET out == callGeminiAPI(retryCount, resp)
     IN CASE out.kind = "return" ->
               /\ apiResult' = [data |-> resp.body, modelUsed |-> modelsToTry[modelIdx]]
               /\ response' = RespondTo(resp.body, modelsToTry[modelIdx])
               /\ pc' = "done"
               /\ cur' = Observe(cur, resp)
               /\ UNCHANGED <<modelIdx, retryCount, delay, lastError, failed>>
          [] out.kind = "retry" ->
               /\ pc' = "backoff"
               /\ delay' = out.delay
               /\ cur' = Observe(cur, resp)
               /\ UNCHANGED <<modelIdx, retryCount, lastError, apiResult, response, failed>>
          [] OTHER ->
               /\ apiResult' = apiResult
               /\ lastError' = out.err
               /\ failed' = failed \cup {modelIdx}
               /\ IF IsNotFoundMessage(out.err)
                    THEN NextModel(out.err)
                    ELSE /\ pc' = "wait"
                         /\ delay' = nextModelDelay
                         /\ cur' = Observe(cur, resp)
                         /\ UNCHANGED <<modelIdx, retryCount, response>>

\* The backoff sleep of callGeminiAPI ends and the same model is called again.
Backoff ==
  /\ pc = "backoff"
  /\ retryCount' = retryCount + 1
  /\ cur' = [cur EXCEPT !.sleeps = Append(@, delay)]
  /\ delay' = 0
  /\ pc' = "fetch"
  /\ UNCHANGED <<request, modelIdx, lastError, apiResult, response, calls, failed, tried,
                 scenario, okSeen, parsed, edits, conc, img, page>>

\* The handler's sleep(500) ends.
Wait ==
  /\ pc = "wait"
  /\ NextModel(lastError)
  /\ UNCHANGED <<request, lastError, apiResult, calls, failed, tried, scenario, okSeen,
                 parsed, edits, conc, img, page>>

Next ==
  \/ Receive
  \/ \E resp \in Responses : Fetch(resp)
  \/ Backoff
  \/ Wait

Spec == Init /\ [][Next]_vars

\* Every fetch settles and every sleep ends: a handler that can take a step
\* takes one.
LiveSpec == Spec /\ WF_vars(Next)

(***************************************************************************)
(* The validation step on its own: the value JSON.parse returned (line     *)
(* 499) is any object reached from the empty object or from a complete     *)
(* answer by assigning at most MaxEdits of its properties; the result is   *)
(* built from it (lines 502-555), validated (lines 317-370) and returned   *)
(* (lines 375-381).                                                        *)
(***************************************************************************)
MaxEdits == 2

MaxItems == 3

\* The keys of PlantInfo that the upstream answers.
PlantKeys ==
  <<S("commonName"), S("scientificName"), S("family"), S("nativeRegion"),
    S("careRequirements"), S("growthCharacteristics"), S("interestingFacts"),
    S("warnings"), S("identificationConfidence"), S("similarPlants"),
    S("imageSearchTerms"), S("imageCount")>>

NameValues == {JStr(<<>>), JStr(S("Aloe")), Num(5), JNull}

FullCare ==
  JObj(<<Member(S("watering"), JStr(S("Low"))), Member(S("sunlight"), JStr(S("Indoor"))),
         Member(S("soil"), JStr(S("Medium"))), Member(S("temperature"), JStr(S("High"))),
         Member(S("humidity"), JStr(S("Tropical"))), Member(S("fertilizing"), JStr(S("Low")))>>)

CareValues ==
  {JNull, JStr(S("sun")), JArr(<<>>), JObj(<<>>), FullCare,
   JObj(<<Member(S("sunlight"), JStr(S("sun"))), Member(S("watering"), Num(5)),
          Member(S("soil"), JStr(<<>>))>>)}

FullGrowth ==
  JObj(<<Member(S("size"), JStr(S("High"))), Member(S("growthRate"), JStr(S("Medium"))),
         Member(S("lifespan"), JStr(S("Low")))>>)

GrowthValues ==
  {JNull, JBool(TRUE), JObj(<<>>), FullGrowth,
   JObj(<<Member(S("size"), JStr(<<>>)), Member(S("growthRate"), JNull)>>)}

\* n strings
StringsOf(n) == [i \in 1..n |-> JStr(S("Fig"))]

\* Arrays of up to MaxItems strings, an array of MaxItems elements one of
\* which is no string, and a value that is no array.
ArrayValues ==
  {JArr(StringsOf(n)) : n \in 0..MaxItems}
    \cup {JArr(<<Num(5)>> \o StringsOf(MaxItems - 1)), JStr(S("Fig"))}

ConfidenceValues ==
  {JStr(S("High")), JStr(S("Low")), JStr(S("high")), JStr(S("Certain")), JStr(<<>>), Num(5)}

CountValues == {Num(0), Num(-1), Num(12), JNum(11, 2), JStr(S("6"))}

FieldValues(key) ==
  CASE key \in {S("commonName"), S("scientificName"), S("family"), S("nativeRegion")} ->
         NameValues
    [] key = S("careRequirements") -> CareValues
    [] key = S("growthCharacteristics") -> GrowthValues
    [] key = S("identificationConfidence") -> ConfidenceValues
    [] key = S("imageCount") -> CountValues
    [] OTHER -> ArrayValues

\* A complete answer.
FullRecord ==
  JObj(<<Member(S("commonName"), JStr(<<"Aloe", " ", "vera">>)),
         Member(S("scientificName"), JStr(<<"Aloe", " ", "vera">>)),
         Member(S("family"), JStr(S("Moraceae"))),
         Member(S("nativeRegion"), JStr(S("Tropical"))),
         Member(S("careRequirements"), FullCare),
         Member(S("growthCharacteristics"), FullGrowth),
         Member(S("interestingFacts"), JArr(StringsOf(3))),
         Member(S("warnings"), JArr(StringsOf(1))),
         Member(S("identificationConfidence"), JStr(S("High"))),
         Member(S("similarPlants"), JArr(StringsOf(1))),
         Member(S("imageSearchTerms"), JArr(StringsOf(3))),
         Member(S("imageCount"), Num(5))>>)

\* obj with obj[key] = value, its properties in the order of PlantKeys.
Put(obj, key, value) ==
  LET Has(k) == k = key \/ Get(obj, k).t # "undefined"
      keys == SelectSeq(PlantKeys, Has)
  IN JObj([i \in 1..Len(keys) |->
             Member(keys[i], IF keys[i] = key THEN value ELSE Get(obj, keys[i]))])

InitValidation ==
  /\ request = Read
  /\ pc = "parsed"
  /\ modelIdx = 1
  /\ retryCount = 0
  /\ delay = 0
  /\ lastError = Null
  /\ apiResult = Null
  /\ response = Null
  /\ calls = 1
  /\ cur = NoCalls
  /\ failed = {}
  /\ tried = <<1>>
  /\ scenario = -1
  /\ okSeen = TRUE
  /\ parsed \in {JObj(<<>>), FullRecord}
  /\ edits = 0
  /\ conc = Null
  /\ img = Null
  /\ page = Null

\* One property of the parsed answer is what the upstream made it.
Assign(key, value) ==
  /\ pc = "parsed"
  /\ edits < MaxEdits
  /\ parsed' = Put(parsed, key, value)
  /\ edits' = edits + 1
  /\ UNCHANGED <<pc, response, handlerVars, conc, img, page>>

\* Lines 502-555, then lines 317-381.
Validate ==
  /\ pc = "parsed"
  /\ response' = Success(modelsToTry[modelIdx], ResultOfParsed(parsed))
  /\ pc' = "validated"
  /\ UNCHANGED <<parsed, edits, handlerVars, conc, img, page>>

NextValidation ==
  \/ \E i \in 1..Len(PlantKeys) : \E value \in FieldValues(PlantKeys[i]) :
       Assign(PlantKeys[i], value)
  \/ Validate

ValidationSpec == InitValidation /\ [][NextValidation]_vars

(***************************************************************************)
(* The text of a 2xx answer on its own: the text is matched, cleaned and   *)
(* parsed (lines 486-499) or, when that throws, searched by                *)
(* extractPlantInfoFromText (lines 313-315), and the handler answers.      *)
(***************************************************************************)
\* Values of commonName: Aloe / Aloe vera / Fig,} / ```Fig
NameStrings == {S("Aloe"), <<"Aloe", " ", "vera">>, <<"Fig", ",", "}">>, <<"<fence>", "Fig">>}

\* Values of identificationConfidence: High / Low / high / Certain / Highly
ConfidenceStrings == {S("High"), S("Low"), S("high"), S("Certain"), <<"High", "ly">>}

TextStyles == {"json", "fenced", "trailing", "single", "bare", "prose"}

\* {"commonName":"<name>","identificationConfidence":"<conf>"}
JsonText(name, conf, end) ==
  <<"{">> \o Pair("commonName", Quoted(name)) \o <<",">>
    \o Pair("identificationConfidence", Quoted(conf)) \o end

MakeText(style, name, conf) ==
  CASE style = "json" -> JsonText(name, conf, <<"}">>)
    [] style = "fenced" ->
         <<"<fence>", "json", "\n">> \o JsonText(name, conf, <<"}">>) \o <<"\n", "<fence>">>
    [] style = "trailing" -> JsonText(name, conf, <<",", " ", "}">>)
    [] style = "single" ->
         <<"{", "commonName", ":", " ", "'">> \o name
           \o <<"'", ",", " ", "identificationConfidence", ":", " ", "'">> \o conf
           \o <<"'", ",", "}">>
    [] style = "bare" ->
         <<"{", "commonName", ":", " ">> \o name
           \o <<",", " ", "identificationConfidence", ":", " ">> \o conf \o <<"}">>
    [] OTHER ->
         <<"Common", " ", "name", ":", " ">> \o name
           \o <<".", " ", "Confidence", ":", " ">> \o conf \o <<" ", "sun", ".">>

MadeTexts ==
  {MakeText(style, name, conf) :
     style \in TextStyles, name \in NameStrings, conf \in ConfidenceStrings}

\* The text the handler took from the answer (line 307).
text == apiResult.data.part.s

InitText ==
  /\ request = Read
  /\ pc = "text"
  /\ modelIdx = 1
  /\ retryCount = 0
  /\ delay = 0
  /\ lastError = Null
  /\ \E t \in Texts \cup MadeTexts :
       apiResult = [data |-> [kind |-> "json", words |-> {}, part |-> JStr(t)],
                    modelUsed |-> modelsToTry[1]]
  /\ response = Null
  /\ calls = 1
  /\ cur = NoCalls
  /\ failed = {}
  /\ tried = <<1>>
  /\ scenario = -1
  /\ okSeen = TRUE
  /\ parsed = Null
  /\ edits = 0
  /\ conc = Null
  /\ img = Null
  /\ page = Null

\* Lines 486-499: JSON.parse returns, or parseGeminiJsonResponse throws.
ParseText ==
  /\ pc = "text"
  /\ LET m == JsonMatch(text)
         p == JSONparse(CleanText(m.s))
     IN IF m.found /\ p.ok /\ p.v.t # "null"
          THEN parsed' = p.v /\ pc' = "parsed"
          ELSE parsed' = parsed /\ pc' = "extract"
  /\ UNCHANGED <<response, edits, handlerVars, conc, img, page>>

\* Lines 502-555 or lines 313-315, then lines 317-381.
AnswerText ==
  /\ pc \in {"parsed", "extract"}
  /\ response' = RespondTo(apiResult.data, apiResult.modelUsed)
  /\ pc' = IF pc = "parsed" THEN "done" ELSE "extracted"
  /\ UNCHANGED <<parsed, edits, handlerVars, conc, img, page>>

NextText == ParseText \/ AnswerText

TextSpec == InitText /\ [][NextText]_vars

(***************************************************************************)
(* Two POST requests in one process.  JavaScript runs one handler at a     *)
(* time and changes from one to the other only where a handler awaits: at  *)
(* the fetch of callGeminiAPI, in its backoff sleep and in the handler's   *)
(* sleep(500).  Both requests have passed validation and wait for their    *)
(* first fetch.  The variables above are the locals of the request that    *)
(* runs next; conc holds                                                   *)
(*   id           which request that is, 1 or 2                            *)
(*   saved        the locals of the other request, kept by its closures    *)
(*   scripts      for each request the upstream answers to its fetches     *)
(*   interleaved  whether a change of request has happened while both      *)
(*                were between their first fetch and their return          *)
(* route.ts has no binding outside its functions that is assigned after    *)
(* the module is loaded (lines 3-16, 76).                                  *)
(***************************************************************************)
\* Upstream answers to the successive fetches of one request, each enough
\* for the request to return.
Scripts ==
  LET Answer(status, kind) == [status |-> status, body |-> [kind |-> kind, words |-> {}]]
      OkAnswer(part) ==
        [status |-> 200, body |-> [kind |-> "json", words |-> {}, part |-> part]]
  IN {<<OkAnswer(JStr(TextAloe))>>,
      <<Answer(503, "json"), OkAnswer(JStr(TextProse))>>,
      <<Answer(404, "json"), Answer(404, "json"), OkAnswer(JStr(TextAloe))>>,
      <<Answer(500, "json"), Answer(429, "empty"), OkAnswer(Num(5))>>,
      <<Answer(503, "json"), Answer(503, "json"), Answer(503, "json"),
        Answer(503, "json"), Answer(404, "json"), Answer(0, "empty"),
        Answer(404, "json")>>,
      <<Answer(0, "empty"), Answer(429, "json"), Answer(200, "null")>>}

\* The locals of the request that runs next, and what was observed of it.
Locals ==
  [pc |-> pc, modelIdx |-> modelIdx, retryCount |-> retryCount, delay |-> delay,
   lastError |-> lastError, apiResult |-> apiResult, response |-> response,
   calls |-> calls, cur |-> cur, failed |-> failed, tried |-> tried,
   scenario |-> scenario, okSeen |-> okSeen]

InitConcurrent ==
  /\ request = Read
  /\ pc = "fetch"
  /\ modelIdx = 1
  /\ retryCount = 0
  /\ delay = 0
  /\ lastError = Null
  /\ apiResult = Null
  /\ response = Null
  /\ calls = 0
  /\ cur = NoCalls
  /\ failed = {}
  /\ tried = <<>>
  /\ scenario = 0
  /\ okSeen = FALSE
  /\ parsed = Null
  /\ edits = 0
  /\ img = Null
  /\ page = Null
  /\ \E first \in Scripts : \E second \in Scripts :
       conc = [id |-> 1, saved |-> Locals, scripts |-> <<first, second>>,
               interleaved |-> FALSE]

\* Switch with one retryCount for both requests.
SwitchSharingRetryCount ==
  /\ conc.saved.pc # "done"
  /\ pc' = conc.saved.pc
  /\ modelIdx' = conc.saved.modelIdx
  /\ retryCount' = retryCount
  /\ delay' = conc.saved.delay
  /\ lastError' = conc.saved.lastError
  /\ apiResult' = conc.saved.apiResult
  /\ response' = conc.saved.response
  /\ calls' = conc.saved.calls
  /\ cur' = conc.saved.cur
  /\ failed' = conc.saved.failed
  /\ tried' = conc.saved.tried
  /\ scenario' = conc.saved.scenario
  /\ okSeen' = conc.saved.okSeen
  /\ conc' = [conc EXCEPT !.id = 3 - @,
                          !.saved = Locals,
                          !.interleaved = @ \/ (/\ calls > 0 /\ pc # "done"
                                                /\ conc.saved.calls > 0)]
  /\ UNCHANGED <<request, parsed, edits, img, page>>

\* The request that runs is suspended in an await or has returned, and the
\* event loop goes on with the other request, whose promise has settled.
Switch ==
  /\ conc.saved.pc # "done"
  /\ pc' = conc.saved.pc
  /\ modelIdx' = conc.saved.modelIdx
  /\ retryCount' = conc.saved.retryCount
  /\ delay' = conc.saved.delay
  /\ lastError' = conc.saved.lastError
  /\ apiResult' = conc.saved.apiResult
  /\ response' = conc.saved.response
  /\ calls' = conc.saved.calls
  /\ cur' = conc.saved.cur
  /\ failed' = conc.saved.failed
  /\ tried' = conc.saved.tried
  /\ scenario' = conc.saved.scenario
  /\ okSeen' = conc.saved.okSeen
  /\ conc' = [conc EXCEPT !.id = 3 - @,
                          !.saved = Locals,
                          !.interleaved = @ \/ (/\ calls > 0 /\ pc # "done"
                                                /\ conc.saved.calls > 0)]
  /\ UNCHANGED <<request, parsed, edits, img, page>>

\* The fetch of the running request settles with the next answer of its script.
FetchScripted ==
  /\ calls < Len(conc.scripts[conc.id])
  /\ Fetch(conc.scripts[conc.id][calls + 1])

NextConcurrent ==
  \/ Switch
  \/ FetchScripted
  \/ Backoff
  \/ Wait

ConcurrentSpec == InitConcurrent /\ [][NextConcurrent]_vars

(***************************************************************************)
(* The image search: GET of src/app/api/images/route.ts and                *)
(* fetchPlantImages of src/app/page.tsx.  img holds                        *)
(*   flow      "server" for GET, "client" for fetchPlantImages             *)
(*   pc        "start", "fetch" (suspended in the fetch of the photo       *)
(*             search) or "done"                                           *)
(*   query     the query parameter of GET, <<>> when absent, or the        *)
(*             plantName given to fetchPlantImages                         *)
(*   count     the count parameter of GET, "" when absent                  *)
(*   key       whether UNSPLASH_API_KEY is set                             *)
(*   answer    how the fetch of the photo search settled; users tells for  *)
(*             each photo of the results whether it has a user with a      *)
(*             name ("name"), a user without one ("noname") or no user     *)
(*             ("nouser")                                                  *)
(*   response  for GET the response returned: its status, success, count   *)
(*             and images; for fetchPlantImages images is the plantImages  *)
(*             of the page, and status and count stay 0                    *)
(* An image is known by its regular URL: a picsum URL with its random and  *)
(* plant parameters, a photo of the search by its place in the results, or *)
(* a file of the page; and by its user.name, "" where the flow keeps none. *)
(***************************************************************************)
\* encodeURIComponent on strings of letters and spaces
encodeURIComponent(q) == [i \in 1..Len(q) |-> IF q[i] = " " THEN "%20" ELSE q[i]]

\* parseInt on the count parameters of the requests; nan for NaN
parseInt(str) ==
  CASE str = "0" -> [nan |-> FALSE, n |-> 0]
    [] str = "3" -> [nan |-> FALSE, n |-> 3]
    [] str = "6" -> [nan |-> FALSE, n |-> 6]
    [] str = "8" -> [nan |-> FALSE, n |-> 8]
    [] str = "8px" -> [nan |-> FALSE, n |-> 8]
    [] str = "4.7" -> [nan |-> FALSE, n |-> 4]
    [] str = "-2" -> [nan |-> FALSE, n |-> -2]
    [] OTHER -> [nan |-> TRUE, n |-> 0]

InitImages ==
  /\ request = Read
  /\ pc = "done"
  /\ modelIdx = 0
  /\ retryCount = 0
  /\ delay = 0
  /\ lastError = Null
  /\ apiResult = Null
  /\ response = Null
  /\ calls = 0
  /\ cur = NoCalls
  /\ failed = {}
  /\ tried = <<>>
  /\ scenario = 0
  /\ okSeen = FALSE
  /\ parsed = Null
  /\ edits = 0
  /\ conc = Null
  /\ page = Null
  /\ LET none == [kind |-> "none", status |-> 0, results |-> 0, users |-> <<>>]
         empty == [status |-> 0, success |-> FALSE, count |-> 0, images |-> <<>>]
     IN \/ \E query \in {<<>>, <<"rose">>, <<"aloe", " ", "vera">>} :
             \E count \in {"", "0", "3", "6", "8", "8px", "4.7", "-2", "abc"} :
               \E key \in BOOLEAN :
                 img = [flow |-> "server", pc |-> "start", query |-> query,
                        count |-> count, key |-> key, answer |-> none,
                        response |-> empty]
        \/ \E plantName \in {<<>>, <<"Unknown", " ", "Plant">>, <<"rose">>,
                             <<"aloe", " ", "vera">>} :
             img = [flow |-> "client", pc |-> "start", query |-> plantName,
                    count |-> "", key |-> FALSE, answer |-> none, response |-> empty]

\* GetStart going to the fetch whether a key is set or not.
GetStartAlwaysFetching ==
  /\ img.flow = "server"
  /\ img.pc = "start"
  /\ img' = [img EXCEPT !.pc = "fetch"]
  /\ UNCHANGED <<pc, response, parsed, edits, handlerVars, conc, page>>

\* GET, lines 4-44: to the mock images when no key is set, else to the fetch.
GetStart ==
  /\ img.flow = "server"
  /\ img.pc = "start"
  /\ LET query == IF img.query = <<>> THEN <<"plant">> ELSE img.query
         count == parseInt(IF img.count = "" THEN "6" ELSE img.count)
         length == IF count.nan \/ count.n < 0
                     THEN 0
                     ELSE IF count.n < 6 THEN count.n ELSE 6
         mockImages == [k \in 1..length |->
                          [kind |-> "picsum", index |-> k - 1,
                           query |-> encodeURIComponent(query),
                           user |-> "Botanical Photos"]]
     IN IF ~img.key
          THEN img' = [img EXCEPT !.pc = "done",
                                  !.response = [status |-> 200, success |-> TRUE,
                                                count |-> Len(mockImages),
                                                images |-> mockImages]]
          ELSE img' = [img EXCEPT !.pc = "fetch"]
  /\ UNCHANGED <<pc, response, parsed, edits, handlerVars, conc, page>>

\* GET, lines 47-98: the fetch settles with answer.
GetFetch(answer) ==
  /\ img.flow = "server"
  /\ img.pc = "fetch"
  /\ img' = [img EXCEPT
       !.pc = "done",
       !.answer = answer,
       !.response =
         IF answer.kind = "ok" /\ "nouser" \notin Range(answer.users)
           THEN [status |-> 200, success |-> TRUE, count |-> answer.results,
                 images |-> [k \in 1..answer.results |->
                               [kind |-> "photo", index |-> k, query |-> <<>>,
                                user |-> IF answer.users[k] = "name"
                                           THEN "photographer"
                                           ELSE "undefined"]]]
           ELSE [status |-> 500, success |-> FALSE, count |-> 0, images |-> <<>>]]
  /\ UNCHANGED <<pc, response, parsed, edits, handlerVars, conc, page>>

\* fetchPlantImages, lines 81-87.
ClientStart ==
  /\ img.flow = "client"
  /\ img.pc = "start"
  /\ img' = [img EXCEPT !.pc = IF img.query = <<>> \/ img.query = <<"Unknown", " ", "Plant">>
                                 THEN "done"
                                 ELSE "fetch"]
  /\ UNCHANGED <<pc, response, parsed, edits, handlerVars, conc, page>>

\* fetchPlantImages, lines 85-103: the fetch settles with answer.
ClientFetch(answer) ==
  /\ img.flow = "client"
  /\ img.pc = "fetch"
  /\ img' = [img EXCEPT
       !.pc = "done",
       !.answer = answer,
       !.response.images =
         CASE answer.kind = "ok" ->
                [k \in 1..answer.results |->
                   [kind |-> "photo", index |-> k, query |-> <<>>, user |-> ""]]
           [] answer.kind = "http" -> @
           [] OTHER ->
                [k \in 1..3 |->
                   [kind |-> "placeholder-plant", index |-> k, query |-> <<>>, user |-> ""]]]
  /\ UNCHANGED <<pc, response, parsed, edits, handlerVars, conc, page>>

\* How the fetch of the photo search can settle: it rejects, it is answered
\* with a status that is not ok, with a result list of some length, whose
\* photos have a user with a name or not, or with a body that is no JSON or
\* has no results.
NextImages ==
  \/ GetStart
  \/ ClientStart
  \/ \E answer \in
         {[kind |-> "throws", status |-> 0, results |-> 0, users |-> <<>>],
          [kind |-> "http", status |-> 403, results |-> 0, users |-> <<>>],
          [kind |-> "http", status |-> 500, results |-> 0, users |-> <<>>],
          [kind |-> "body", status |-> 200, results |-> 0, users |-> <<>>],
          [kind |-> "ok", status |-> 200, results |-> 0, users |-> <<>>],
          [kind |-> "ok", status |-> 200, results |-> 1, users |-> <<"name">>],
          [kind |-> "ok", status |-> 200, results |-> 3,
           users |-> <<"name", "name", "name">>],
          [kind |-> "ok", status |-> 200, results |-> 3,
           users |-> <<"name", "noname", "name">>],
          [kind |-> "ok", status |-> 200, results |-> 3,
           users |-> <<"name", "nouser", "name">>]} :
       \/ GetFetch(answer)
       \/ ClientFetch(answer)

ImagesSpec == InitImages /\ [][NextImages]_vars

(***************************************************************************)
(* The page, src/app/page.tsx: its state and its handlers.  page holds     *)
(*   image        the File in the image state, one of Images, 0 for null   *)
(*   plantData    the plantData state: whether it is set, the image whose  *)
(*                identification it is and the commonName it carries       *)
(*   plantImages  the plantImages state: how many URLs it holds and the    *)
(*                plant whose search gave them                             *)
(*   loading      the loading state                                        *)
(*   error        the error state                                          *)
(*   run          the run of handleIdentifyPlant that waits for its fetch: *)
(*                whether there is one, and the image it sent              *)
(*   searches     the plants whose fetchPlantImages waits for its fetch    *)
(*   event        the handler that ran last                                *)
(* The button of handleIdentifyPlant is disabled while loading is true     *)
(* (line 385), so one run at most waits for its fetch.                     *)
(***************************************************************************)
Images == {1, 2}

\* data.data.commonName of the identification of an image
PlantOf(image) == IF image = 1 THEN "rose" ELSE "aloe"

InitPage ==
  /\ request = Read
  /\ pc = "done"
  /\ modelIdx = 0
  /\ retryCount = 0
  /\ delay = 0
  /\ lastError = Null
  /\ apiResult = Null
  /\ response = Null
  /\ calls = 0
  /\ cur = NoCalls
  /\ failed = {}
  /\ tried = <<>>
  /\ scenario = 0
  /\ okSeen = FALSE
  /\ parsed = Null
  /\ edits = 0
  /\ conc = Null
  /\ img = Null
  /\ page = [image |-> 0,
             plantData |-> [set |-> FALSE, image |-> 0, plant |-> ""],
             plantImages |-> [n |-> 0, plant |-> ""],
             loading |-> FALSE,
             error |-> "",
             run |-> [active |-> FALSE, image |-> 0],
             searches |-> {},
             event |-> "none"]

\* handleImageUpload (lines 115-127) and handleDrop (173-192) with an image file.
SelectImage(file) ==
  /\ page' = [page EXCEPT !.image = file,
                          !.plantData = [set |-> FALSE, image |-> 0, plant |-> ""],
                          !.error = "",
                          !.plantImages = [n |-> 0, plant |-> ""],
                          !.event = "select"]
  /\ UNCHANGED <<pc, response, parsed, edits, handlerVars, conc, img>>

\* capturePhoto, lines 48-78: the blob of the canvas becomes the image.
CapturePhoto(file) ==
  /\ page' = [page EXCEPT !.image = file,
                          !.plantData = [set |-> FALSE, image |-> 0, plant |-> ""],
                          !.error = "",
                          !.event = "capture"]
  /\ UNCHANGED <<pc, response, parsed, edits, handlerVars, conc, img>>

\* The Upload Image button, lines 325-331.
ClearImage ==
  /\ page' = [page EXCEPT !.image = 0,
                          !.plantData = [set |-> FALSE, image |-> 0, plant |-> ""],
                          !.plantImages = [n |-> 0, plant |-> ""],
                          !.event = "clear"]
  /\ UNCHANGED <<pc, response, parsed, edits, handlerVars, conc, img>>

\* handleIdentifyPlant, lines 129-143: to its return without an image, or to
\* the await of its fetch.
Identify ==
  /\ page.image = 0 \/ ~page.loading
  /\ IF page.image = 0
       THEN page' = [page EXCEPT !.error = "Please select or capture an image first",
                                 !.event = "identify"]
       ELSE page' = [page EXCEPT !.loading = TRUE,
                                 !.error = "",
                                 !.plantImages = [n |-> 0, plant |-> ""],
                                 !.run = [active |-> TRUE, image |-> page.image],
                                 !.event = "identify"]
  /\ UNCHANGED <<pc, response, parsed, edits, handlerVars, conc, img>>

\* Settle without the finally block: loading is set to false on the success
\* path only.
SettleWithoutFinally(outcome) ==
  /\ page.run.active
  /\ IF outcome = "ok"
       THEN page' = [page EXCEPT
                       !.plantData = [set |-> TRUE, image |-> page.run.image,
                                      plant |-> PlantOf(page.run.image)],
                       !.searches = @ \cup {PlantOf(page.run.image)},
                       !.loading = FALSE,
                       !.run = [active |-> FALSE, image |-> 0],
                       !.event = "settle"]
       ELSE page' = [page EXCEPT
                       !.error = outcome,
                       !.run = [active |-> FALSE, image |-> 0],
                       !.event = "settle"]
  /\ UNCHANGED <<pc, response, parsed, edits, handlerVars, conc, img>>

\* handleIdentifyPlant, lines 144-165: its fetch settles.  outcome is "ok"
\* for a 2xx answer with a JSON body, and else what went wrong: the status
\* is not ok, the fetch rejected, or the body is no JSON.  fetchPlantImages
\* is called and runs to the await of its fetch (lines 81-88).
Settle(outcome) ==
  /\ page.run.active
  /\ IF outcome = "ok"
       THEN page' = [page EXCEPT
                       !.plantData = [set |-> TRUE, image |-> page.run.image,
                                      plant |-> PlantOf(page.run.image)],
                       !.searches = @ \cup {PlantOf(page.run.image)},
                       !.loading = FALSE,
                       !.run = [active |-> FALSE, image |-> 0],
                       !.event = "settle"]
       ELSE page' = [page EXCEPT
                       !.error = outcome,
                       !.loading = FALSE,
                       !.run = [active |-> FALSE, image |-> 0],
                       !.event = "settle"]
  /\ UNCHANGED <<pc, response, parsed, edits, handlerVars, conc, img>>

\* fetchPlantImages, lines 90-103: its fetch settles with a result list of
\* results URLs, with a status that is not ok, or it rejects.
SearchSettles(plant, kind, results) ==
  /\ plant \in page.searches
  /\ page' = [page EXCEPT
       !.searches = @ \ {plant},
       !.plantImages =
         CASE kind = "ok" -> [n |-> results, plant |-> IF results = 0 THEN "" ELSE plant]
           [] kind = "http" -> @
           [] OTHER -> [n |-> 3, plant |-> plant],
       !.event = "search"]
  /\ UNCHANGED <<pc, response, parsed, edits, handlerVars, conc, img>>

NextPage ==
  \/ \E file \in Images : SelectImage(file) \/ CapturePhoto(file)
  \/ ClearImage
  \/ Identify
  \/ \E outcome \in {"ok", "Failed to identify plant", "Failed to fetch",
                     "Unexpected token"} : Settle(outcome)
  \/ \E plant \in {PlantOf(file) : file \in Images} :
       \/ SearchSettles(plant, "ok", 0)
       \/ SearchSettles(plant, "ok", 2)
       \/ SearchSettles(plant, "http", 0)
       \/ SearchSettles(plant, "throws", 0)

PageSpec == InitPage /\ [][NextPage]_vars

\* The fetch of handleIdentifyPlant resolves or rejects in the end.
PageLiveSpec ==
  PageSpec /\ WF_vars(\E outcome \in {"ok", "Failed to identify plant", "Failed to fetch",
                                      "Unexpected token"} : Settle(outcome))

(***************************************************************************)
(* Properties of the inference client and of the handler                   *)
(***************************************************************************)
Answered == response # Null

Succeeded == Answered /\ response.status = 200

\* Every answer of the current model so far was 429 or 503.
OnlyOverloads == cur.n > 0 /\ cur.overloads = cur.n

\* The backoff sleeps of a model answered 429 or 503 every time.
DoublingDelays == <<1000, 2000, 4000>>

\* C1: a model that answers every call with 503 or 429 is called exactly 4
\* times, with retryCount 0, 1, 2, 3 and sleeps of 1000, 2000 and 4000 ms
\* before the 2nd, 3rd and 4th call; it is not called a 5th time, and after
\* the 4th answer the handler goes on to the next model.
C1_OverloadRetriedThreeTimes ==
  /\ cur.n <= 4
  /\ OnlyOverloads =>
       /\ retryCount = (IF pc = "fetch" THEN cur.n ELSE cur.n - 1)
       /\ cur.sleeps = SubSeq(DoublingDelays, 1, Len(cur.sleeps))
       /\ Len(cur.sleeps) = (IF pc = "fetch" THEN cur.n ELSE cur.n - 1)
       /\ cur.n < 4 => pc \in {"backoff", "fetch"}
       /\ cur.n = 4 => pc = "wait"

\* C2: a model that answers 404 is not called again and the next model is
\* called at once, with retryCount 0 and without any sleep; when the answers
\* of the request are 404, 404, 200 the handler makes 3 calls, one to each of
\* the first three models, and succeeds with the third.
C2_NotFoundAdvancesAtOnce ==
  /\ cur.n > 0 => cur.last # 404
  /\ (pc = "fetch" /\ cur.n = 0) => retryCount = 0
  /\ scenario = Len(FallbackScenario) =>
       /\ calls = 3
       /\ tried = <<1, 2, 3>>
       /\ Succeeded
       /\ response.body.model = modelsToTry[3]

\* C3: POST answers 503 with success false and commonName "Service
\* Unavailable" exactly when every model of the list was called and failed;
\* when some call was answered 2xx the 503 is not produced.
C3_UnavailableIffAllFailed ==
  /\ (Answered /\ response.status = 503) =>
       /\ response.body.success = FALSE
       /\ response.body.data.commonName = S("Service Unavailable")
       /\ tried = <<1, 2, 3, 4>>
       /\ failed = 1..4
  /\ (pc = "done" /\ failed = 1..4) => response.status = 503
  /\ okSeen => ~(Answered /\ response.status = 503)

\* C4: a model that answers its first k calls (k in 1..3) with 429 or 503,
\* whatever their bodies, is called again, and when its next answer is 2xx
\* the request ends with 200 and success true naming that model, no other
\* model being called.
C4_OverloadRecoveredLocally ==
  /\ (OnlyOverloads /\ cur.n <= 3) => pc \in {"backoff", "fetch"}
  /\ (cur.overloads \in 1..3 /\ cur.n = cur.overloads + 1 /\ cur.last = 200) =>
       /\ Succeeded
       /\ response.body.success = TRUE
       /\ response.body.model = modelsToTry[modelIdx]
       /\ tried[Len(tried)] = modelIdx

\* The last answer of the current model had a status that is not 2xx and none
\* of 429, 503 and 404.
OtherStatus(c) == c.n > 0 /\ c.last \in ErrorStatuses \ {404, 429, 503}

\* The error is the one thrown at line 143 for such a status.
ApiErrorThrown(err) == err # Null /\ err.name = "ApiError"

\* C5: after an answer whose status is not 2xx and none of 429, 503 and 404,
\* whatever its error message, the same model is not called again: the
\* handler is in its sleep of 500 ms, after which it calls the next model.
C5_OtherStatusWaitsThenAdvances ==
  /\ [](OtherStatus(cur) => (pc = "wait" /\ delay = nextModelDelay))
  /\ [][(calls' = calls + 1 /\ ApiErrorThrown(lastError')) => pc' = "wait"]_vars

\* The record has every name, care and growth field as a non-empty string,
\* at least min entries in each array, and a confidence of the three levels.
FullyPopulated(d) ==
  /\ \A k \in {"commonName", "scientificName", "family", "nativeRegion"} : Len(d[k]) > 0
  /\ \A k \in {"watering", "sunlight", "soil", "temperature", "humidity", "fertilizing"} :
       Len(d.careRequirements[k]) > 0
  /\ \A k \in {"size", "growthRate", "lifespan"} : Len(d.growthCharacteristics[k]) > 0
  /\ Len(d.interestingFacts) >= 3
  /\ Len(d.warnings) >= 1
  /\ Len(d.similarPlants) >= 1
  /\ d.identificationConfidence \in {<<"High">>, <<"Medium">>, <<"Low">>}

HasRecord(resp) == "data" \in DOMAIN resp.body /\ FullyPopulated(resp.body.data)

\* C6: the models are called in the order of the list, model i+1 only after
\* model i has failed and never an earlier model after a later one; a
\* successful response names, in model and in data.modelUsed, the model whose
\* call was answered 2xx, which is the last model called: the handler has
\* returned.
C6_ModelsInListOrder ==
  /\ Len(tried) <= Len(modelsToTry)
  /\ \A i \in 1..Len(tried) : tried[i] = i
  /\ \A i \in 2..Len(tried) : (i - 1) \in failed
  /\ pc \in {"fetch", "backoff"} => (modelIdx \notin failed /\ Len(tried) \in {modelIdx - 1, modelIdx})
  /\ Succeeded =>
       /\ pc = "done"
       /\ cur.n > 0 /\ cur.last = 200
       /\ tried[Len(tried)] \notin failed
       /\ response.body.model = modelsToTry[tried[Len(tried)]]
       /\ response.body.data.modelUsed = modelsToTry[tried[Len(tried)]]

C6_Witness ==
  /\ Succeeded
  /\ tried = <<1, 2, 3>>
  /\ failed = {1, 2}
  /\ response.body.model = FALLBACK_MODELS[2]

\* C7 as stated: every failure response of POST, 400, 503 or 500, carries
\* under data a fully shaped record.
C7_EveryFailureCarriesRecord ==
  (Answered /\ response.status \in {400, 503, 500}) => HasRecord(response)

\* C7 amended: every 503 and 500 response of POST carries success false and
\* a fully shaped record under data, as every 200 response carries one with
\* success true; a 400 response carries an error message and nothing else.
C7_ServerFailuresCarryRecord ==
  Answered =>
    /\ response.status \in {200, 400, 500, 503}
    /\ response.status \in {500, 503} =>
         (HasRecord(response) /\ response.body.success = FALSE)
    /\ response.status = 200 => (response.body.success = TRUE /\ HasRecord(response))
    /\ response.status = 400 => DOMAIN response.body = {"error"}

C7_Witness ==
  /\ Answered
  /\ response.status = 503
  /\ response.body.data.commonName = S("Service Unavailable")
  /\ response.body.data.careRequirements.fertilizing = S("Check back soon")

\* The request names a file whose declared type is outside the allow-list or
\* whose size is above the ceiling.
FailsValidation(req) ==
  /\ req.form = "file"
  /\ \/ normalizedMimeType(req.type) \notin Range(allowedMimeTypes)
     \/ req.size > maxSize

\* C8: a request that fails ingress validation is answered 400 with an error
\* message, and no upstream call is made for it: none before the rejection
\* and none after it.
C8_InvalidRequestNeverSent ==
  /\ [](FailsValidation(request) =>
          /\ calls = 0
          /\ pc \in {"start", "done"}
          /\ pc = "done" => (response.status = 400 /\ "error" \in DOMAIN response.body))
  /\ [][FailsValidation(request) =>
          (pc' = "done" /\ request' = request /\ calls' = 0 /\ response'.status = 400)]_vars

C8_Witness ==
  /\ pc = "done"
  /\ FailsValidation(request)
  /\ request.type = "image/gif"
  /\ response.status = 400
  /\ calls = 0

\* C9: whatever sparse record the validation step is given, the empty one
\* included, the record it returns has its four names and its nine care and
\* growth fields non-empty, at least 3 interesting facts, at least 1 warning,
\* at least 1 similar plant and a confidence of High, Medium or Low; the step
\* does not fail.
C9_ValidatedRecordIsPopulated ==
  pc = "validated" => (Succeeded /\ HasRecord(response))

C9_Witness ==
  /\ pc = "validated"
  /\ Get(parsed, S("interestingFacts")) = JArr(StringsOf(2))
  /\ Get(parsed, S("commonName")).t = "undefined"
  /\ response.body.data.commonName = S("Plant")
  /\ Len(response.body.data.interestingFacts) = 3

\* The upstream answered 2xx with a text from which parseGeminiJsonResponse
\* recovers no JSON.
NoRecoverableJson ==
  /\ apiResult # Null
  /\ apiResult.data.kind = "json"
  /\ IsString(TextOf(apiResult.data))
  /\ ~parseGeminiJsonResponse(TextOf(apiResult.data).s).ok

\* C10: when the upstream answered 2xx and parseGeminiJsonResponse recovers
\* no JSON from the text, the handler answers 200 with success true and the
\* fully populated record validated from what extractPlantInfoFromText found
\* in that text; it answers neither 500 nor 503.
C10_ParseFailureFallsBackToExtraction ==
  NoRecoverableJson =>
    /\ Succeeded
    /\ response.body.success = TRUE
    /\ HasRecord(response)
    /\ response.body.data =
         validatedPlantInfo(extractPlantInfoFromText(TextOf(apiResult.data).s),
                            apiResult.modelUsed)

C10_Witness ==
  /\ NoRecoverableJson
  /\ apiResult.data.part = JStr(TextProse)
  /\ Succeeded
  /\ response.body.data.commonName = <<"Aloe", " ", "vera">>
  /\ response.body.data.interestingFacts[3] = S("Convert CO2 to oxygen")

\* The text came whole to the end of the handler.
TextAnswered == pc \in {"done", "extracted"}

\* C11: the text {commonName: 'Aloe', scientificName: 'Aloe vera',} is
\* repaired and parsed, giving commonName "Aloe" and scientificName
\* "Aloe vera"; so is every text whose only defects are single-quoted
\* strings, bare keys and trailing commas.
C11_QuotesKeysCommasRepaired ==
  /\ text = TextSingleQuoted =>
       /\ pc # "extract"
       /\ TextAnswered =>
            /\ pc = "done"
            /\ response.body.data.commonName = S("Aloe")
            /\ response.body.data.scientificName = <<"Aloe", " ", "vera">>
  /\ \A style \in {"single", "trailing"} : \A conf \in {S("High"), S("Low")} :
       \A name \in {S("Aloe"), <<"Aloe", " ", "vera">>} :
         text = MakeText(style, name, conf) =>
           /\ pc # "extract"
           /\ TextAnswered =>
                /\ pc = "done"
                /\ response.body.data.commonName = name
                /\ response.body.data.identificationConfidence = conf

\* The text is valid JSON for an object.
ValidJson == JSONparse(text).ok /\ JSONparse(text).v.t = "object"

\* C12: a text that is valid structured data is parsed to exactly the value
\* it denotes: the cleaning steps change no string value and no supplied
\* field is lost.
C12_ValidTextParsedExactly ==
  ValidJson =>
    /\ pc \notin {"extract", "extracted"}
    /\ pc \in {"parsed", "done"} => parsed = JSONparse(text).v
    /\ pc = "done" =>
         response.body.data =
           validatedPlantInfo(ResultOfParsed(JSONparse(text).v), apiResult.modelUsed)

\* The terms, facts, warnings or similar plants the parsed answer supplies
\* under key, non-strings removed; <<>> when it supplies no array.
SuppliedStrings(key) ==
  IF Get(parsed, S(key)).t = "array"
    THEN Strings(JArr(FilterStrings(Get(parsed, S(key)).a)))
    ELSE <<>>

\* The terms derived from the names, the family and the sunlight of the
\* validated record's source.
DerivedTerms ==
  LET partial == ResultOfParsed(parsed)
  IN generateImageSearchTerms(OrDefault(partial.commonName, S("plant")),
                              partial.scientificName, partial.family,
                              Sub(partial.careRequirements, "sunlight"))

\* C13: in a successful response imageSearchTerms holds 3 to 5 strings: the
\* terms the upstream supplied when, non-strings removed, they are 3 to 5,
\* and otherwise the derived terms, which are 3 to 5 themselves.
C13_ThreeToFiveSearchTerms ==
  pc = "validated" =>
    /\ Len(response.body.data.imageSearchTerms) \in 3..5
    /\ Len(DerivedTerms) \in 3..5
    /\ response.body.data.imageSearchTerms =
         (IF Len(SuppliedStrings("imageSearchTerms")) \in 3..5
            THEN SuppliedStrings("imageSearchTerms")
            ELSE DerivedTerms)

\* value clamped into [4, 8]
Clamped(value) ==
  IF value.num < 4 * value.den THEN Num(4)
  ELSE IF value.num > 8 * value.den THEN Num(8) ELSE value

\* C14: a numeric imageCount of the upstream comes out clamped into [4, 8],
\* 0 and negative numbers as 4; a missing or non-numeric one comes out as 6;
\* the output is an integer of 4..8.
C14_ImageCountClamped ==
  pc = "validated" =>
    /\ response.body.data.imageCount =
         (IF Get(parsed, S("imageCount")).t = "number"
            THEN Clamped(Get(parsed, S("imageCount")))
            ELSE Num(6))
    /\ response.body.data.imageCount.den = 1
    /\ response.body.data.imageCount.num \in 4..8

\* C19: an upstream identificationConfidence that is a string other than
\* "High", "Medium" and "Low", "high" included, comes out as "Medium",
\* whether the text was parsed as JSON or searched by the patterns.
C19_OtherConfidenceIsMedium ==
  \A style \in TextStyles : \A name \in NameStrings :
    \A conf \in ConfidenceStrings \ {<<"High">>, <<"Medium">>, <<"Low">>} :
      (text = MakeText(style, name, conf) /\ TextAnswered) =>
        response.body.data.identificationConfidence = <<"Medium">>

\* The output under key is the supplied strings when they are at least min,
\* and the default otherwise.
WholeOrDefault(key, min, default) ==
  response.body.data[key] =
    (IF Len(SuppliedStrings(key)) >= min THEN SuppliedStrings(key) ELSE default)

\* C20: each array of the output is the supplied array without its
\* non-strings, when these are as many as the field's minimum (3 facts, 1
\* warning, 1 similar plant, 1 search term), and else the whole default
\* sequence of the field; supplied and default entries are never mixed.
C20_ArraysWholeOrDefault ==
  pc = "validated" =>
    /\ WholeOrDefault("interestingFacts", 3,
                      <<S("Plants help purify indoor air"),
                        S("Can improve mental well-being"),
                        S("Convert CO2 to oxygen")>>)
    /\ WholeOrDefault("warnings", 1,
                      <<S("Always verify plant identification"),
                        S("Wash hands after handling")>>)
    /\ WholeOrDefault("similarPlants", 1, <<S("Various ornamental plants")>>)
    /\ WholeOrDefault("imageSearchTerms", 1, DerivedTerms)

C20_Witness ==
  /\ pc = "validated"
  /\ Get(parsed, S("interestingFacts")) = JArr(StringsOf(2))
  /\ Get(parsed, S("warnings")) = JArr(<<Num(5)>> \o StringsOf(MaxItems - 1))
  /\ response.body.data.interestingFacts[1] = S("Plants help purify indoor air")
  /\ Len(response.body.data.interestingFacts) = 3
  /\ response.body.data.warnings = SuppliedStrings("warnings")
  /\ Len(response.body.data.warnings) = MaxItems - 1

\* An exception has reached the catch block of POST: request.formData()
\* rejected, formData.get('image') gave a string, which has no type to put
\* in lower case, arrayBuffer() rejected, or the 2xx body was null or its
\* text part no string when the record was built from it.
ExceptionRaised ==
  /\ pc = "done"
  /\ \/ /\ request # Read
        /\ \/ request.form \in {"throws", "string"}
           \/ /\ request.form = "file"
              /\ ~FailsValidation(request)
              /\ request.buffer = "throws"
     \/ /\ apiResult # Null
        /\ \/ apiResult.data.kind = "null"
           \/ /\ apiResult.data.kind = "json"
              /\ ~IsString(TextOf(apiResult.data))

\* C16: an exception raised in POST while it reads the form, reads the
\* bytes or builds the record is caught: the handler returns a response,
\* which has status 500, success false and a fully populated record whose
\* commonName is "Processing Error".
C16_ExceptionsAnswered500 ==
  /\ pc = "done" => response # Null
  /\ ExceptionRaised =>
       /\ HasRecord(response)
       /\ response.status = 500
       /\ response.body.success = FALSE
       /\ response.body.data.commonName = S("Processing Error")

C16_Witness ==
  /\ ExceptionRaised
  /\ apiResult # Null
  /\ apiResult.data.kind = "json"
  /\ apiResult.data.part = Num(5)
  /\ response.status = 500
  /\ response.body.data.commonName = S("Processing Error")

RECURSIVE Alone(_, _, _, _)
Alone(script, k, model, retries) ==
  IF k > Len(script)
    THEN Null
    ELSE LET out == callGeminiAPI(retries, script[k])
         IN CASE out.kind = "return" -> RespondTo(script[k].body, modelsToTry[model])
              [] out.kind = "retry" -> Alone(script, k + 1, model, retries + 1)
              [] OTHER ->
                   IF model < Len(modelsToTry)
                     THEN Alone(script, k + 1, model + 1, 0)
                     ELSE ServiceUnavailable(out.err)

\* C17: of two requests interleaved at every fetch and sleep, the steps of
\* the one that runs leave the retry counter, the model, the last error and
\* the result of the other as they were, a change of request changes none of
\* them, and each request returns the response it returns when it runs
\* alone and gets the same upstream answers.
C17_RequestsDoNotInterfere ==
  /\ [](pc = "done" => response = Alone(conc.scripts[conc.id], 1, 1, 0))
  /\ [](conc.saved.pc = "done" =>
          conc.saved.response = Alone(conc.scripts[3 - conc.id], 1, 1, 0))
  /\ [][IF conc'.id = conc.id
          THEN conc'.saved = conc.saved
          ELSE /\ conc'.saved = Locals
               /\ conc.saved = [pc |-> pc', modelIdx |-> modelIdx',
                                retryCount |-> retryCount', delay |-> delay',
                                lastError |-> lastError', apiResult |-> apiResult',
                                response |-> response', calls |-> calls',
                                cur |-> cur', failed |-> failed', tried |-> tried',
                                scenario |-> scenario', okSeen |-> okSeen']]_vars

C17_Witness ==
  /\ conc.interleaved
  /\ pc = "done"
  /\ conc.saved.pc = "done"
  /\ conc.scripts[1] # conc.scripts[2]
  /\ response.status = 503
  /\ conc.saved.response.status = 200
  /\ conc.saved.response.body.model = modelsToTry[3]

\* The photo search has thrown, has answered with a status that is not ok,
\* or has returned an empty result list.
SearchFailed ==
  /\ img.pc = "done"
  /\ \/ img.answer.kind \in {"throws", "http"}
     \/ img.answer.kind = "ok" /\ img.answer.results = 0

\* The number of placeholders of the flow: for GET the count asked for, for
\* fetchPlantImages the three of its list.
PlaceholderCount ==
  IF img.flow = "server"
    THEN parseInt(IF img.count = "" THEN "6" ELSE img.count).n
    ELSE 3

\* C15: when the photo search throws, answers with a status that is not ok
\* or returns no result, the flow ends without an error to its caller and
\* with as many placeholder images as configured, the URL of each fixed by
\* the query and the index of the image.
C15_FailedSearchGivesPlaceholders ==
  SearchFailed =>
    /\ img.response.status < 400
    /\ Len(img.response.images) = PlaceholderCount
    /\ \A k \in 1..Len(img.response.images) :
         /\ img.response.images[k].kind \in {"picsum", "placeholder-plant"}
         /\ img.response.images[k].index \in {k - 1, k}
         /\ img.flow = "server" =>
              img.response.images[k].query =
                encodeURIComponent(IF img.query = <<>> THEN <<"plant">> ELSE img.query)

\* The defaults of the sub-fields of careRequirements and growthCharacteristics.
SubDefaults ==
  [careRequirements |->
     [watering |-> S("Water when top inch of soil is dry"),
      sunlight |-> S("Bright indirect light"),
      soil |-> S("Well-draining potting mix"),
      temperature |-> S("65-80F (18-27C)"),
      humidity |-> S("Moderate humidity"),
      fertilizing |-> S("Monthly during growing season")],
   growthCharacteristics |->
     [size |-> S("Varies by species"), growthRate |-> S("Moderate"),
      lifespan |-> S("Perennial")]]

\* The sub-field of the parsed answer under parent and field.
Supplied(parent, field) == Get(Get(parsed, S(parent)), S(field))

\* C21 as stated: under careRequirements and growthCharacteristics each
\* sub-field that is a string comes out as it is, and each sub-field that is
\* missing or no string comes out as its own default, whatever its siblings
\* are; with no parent every sub-field comes out as its default.
C21_SubFieldsKeptOrDefault ==
  pc = "validated" =>
    \A parent \in DOMAIN SubDefaults : \A field \in DOMAIN SubDefaults[parent] :
      response.body.data[parent][field] =
        (IF IsString(Supplied(parent, field))
           THEN Supplied(parent, field).s
           ELSE SubDefaults[parent][field])

\* C21 amended: each sub-field that is a non-empty string comes out as it
\* is, and each sub-field that is missing, no string or the empty string
\* comes out as its own default, whatever its siblings are; with no parent,
\* or a parent that is no object, every sub-field comes out as its default.
C21_SubFieldsIndependent ==
  pc = "validated" =>
    \A parent \in DOMAIN SubDefaults : \A field \in DOMAIN SubDefaults[parent] :
      response.body.data[parent][field] =
        (IF IsString(Supplied(parent, field)) /\ Supplied(parent, field).s # <<>>
           THEN Supplied(parent, field).s
           ELSE SubDefaults[parent][field])

C21_Witness ==
  /\ pc = "validated"
  /\ Supplied("careRequirements", "sunlight") = JStr(S("sun"))
  /\ Supplied("careRequirements", "watering") = Num(5)
  /\ Supplied("careRequirements", "humidity") = Undefined
  /\ response.body.data.careRequirements.sunlight = S("sun")
  /\ response.body.data.careRequirements.watering = S("Water when top inch of soil is dry")
  /\ response.body.data.careRequirements.humidity = S("Moderate humidity")

\* The PlantInfo that has commonName name, the search terms terms, the model
\* model and the default in every other field.
DefaultsWith(name, terms, model) ==
  [commonName |-> name,
   scientificName |-> <<"Unknown", " ", "species">>,
   family |-> <<"Unknown", " ", "family">>,
   nativeRegion |-> S("Unknown"),
   careRequirements |-> SubDefaults.careRequirements,
   growthCharacteristics |-> SubDefaults.growthCharacteristics,
   interestingFacts |->
     <<S("Plants help purify indoor air"), S("Can improve mental well-being"),
       S("Convert CO2 to oxygen")>>,
   warnings |-> <<S("Always verify plant identification"), S("Wash hands after handling")>>,
   identificationConfidence |-> S("Medium"),
   similarPlants |-> <<S("Various ornamental plants")>>,
   imageSearchTerms |-> terms,
   imageCount |-> Num(6),
   modelUsed |-> model,
   analysisTimestamp |-> Clock,
   responseTime |-> Clock]

\* C22: for the text  Here is the plant: ```json {"commonName":"Aloe"} ```
\* the parser yields the object {"commonName": "Aloe"} without the pattern
\* fallback, and the response is 200 with the record that has commonName
\* "Aloe" and the default in every other field.
C22_FencedJsonAfterPreamble ==
  text = TextFenced =>
    /\ pc # "extract"
    /\ pc \in {"parsed", "done"} =>
         parsed = JObj(<<Member(S("commonName"), JStr(S("Aloe")))>>)
    /\ TextAnswered =>
         /\ pc = "done"
         /\ response.status = 200
         /\ response.body.success = TRUE
         /\ response.body.data =
              DefaultsWith(S("Aloe"),
                           <<S("aloe"), S("plant"), S("foliage"), S("greenery"),
                             S("botanical")>>,
                           apiResult.modelUsed)

C22_Witness ==
  /\ text = TextFenced
  /\ pc = "done"
  /\ response.body.data.commonName = S("Aloe")
  /\ response.body.data.scientificName = <<"Unknown", " ", "species">>

\* A model has answered 2xx with a body that has no candidates, no parts or
\* an empty text.
EmptyContent ==
  /\ pc = "done"
  /\ apiResult # Null
  /\ apiResult.data.kind = "json"
  /\ apiResult.data.part \in {Undefined, JStr(<<>>)}

\* C26: when a model answers 2xx with no candidates, no parts or an empty
\* text, the response is 200 with success true, names that model, and its
\* record is made of the defaults alone: commonName "Plant", confidence
\* "Medium", imageCount 6.
C26_EmptyContentGivesDefaults ==
  EmptyContent =>
    /\ response.status = 200
    /\ response.body.success = TRUE
    /\ response.body.model = modelsToTry[modelIdx]
    /\ response.body.data =
         DefaultsWith(S("Plant"),
                      <<S("plant"), S("foliage"), S("greenery"), S("botanical")>>,
                      modelsToTry[modelIdx])

C26_Witness ==
  /\ EmptyContent
  /\ apiResult.data.part = Undefined
  /\ modelIdx = 2
  /\ response.status = 200
  /\ response.body.data.commonName = S("Plant")
  /\ response.body.data.modelUsed = modelsToTry[2]

\* C23: for every text extractPlantInfoFromText returns a record that holds
\* nothing but commonName, scientificName and identificationConfidence, each
\* of them a string when it is there; an identificationConfidence it holds
\* is "High", "Medium" or "Low", under the quoted key as in the prose
\* phrase; the handler that falls back on it answers 200.
C23_ExtractionTotalAndChecked ==
  LET info == extractPlantInfoFromText(text)
  IN /\ \A k \in DOMAIN info \ {"commonName", "scientificName", "identificationConfidence"} :
          info[k].t = "undefined"
     /\ \A k \in {"commonName", "scientificName", "identificationConfidence"} :
          info[k].t \in {"undefined", "string"}
     /\ info.identificationConfidence.t = "string" =>
          info.identificationConfidence.s \in {<<"High">>, <<"Medium">>, <<"Low">>}
     /\ pc = "extracted" =>
          /\ response.status = 200
          /\ response.body.data.identificationConfidence =
               (IF info.identificationConfidence.t = "string"
                  THEN info.identificationConfidence.s
                  ELSE <<"Medium">>)

C23_Witness ==
  /\ pc = "extracted"
  /\ text = TextProse
  /\ extractPlantInfoFromText(text).identificationConfidence = JStr(S("High"))
  /\ extractPlantInfoFromText(text).commonName = JStr(<<"Aloe", " ", "vera">>)
  /\ extractPlantInfoFromText(text).family = Undefined
  /\ response.body.data.identificationConfidence = S("High")

\* C24: with no UNSPLASH_API_KEY, GET never waits for the photo search and
\* none of its answers is used: it answers 200 with success true and mock
\* images, at most 6, each fixed by its index and the query; it never
\* answers 5xx or success false.
C24_NoKeyGivesMockImages ==
  (img.flow = "server" /\ ~img.key) =>
    /\ img.pc # "fetch"
    /\ img.answer.kind = "none"
    /\ img.pc = "done" =>
         /\ img.response.status = 200
         /\ img.response.success = TRUE
         /\ img.response.count = Len(img.response.images)
         /\ Len(img.response.images) <= 6
         /\ \A k \in 1..Len(img.response.images) :
              img.response.images[k] =
                [kind |-> "picsum", index |-> k - 1,
                 query |-> encodeURIComponent(IF img.query = <<>>
                                                THEN <<"plant">>
                                                ELSE img.query),
                 user |-> "Botanical Photos"]

C24_Witness ==
  /\ img.flow = "server"
  /\ ~img.key
  /\ img.pc = "done"
  /\ img.query = <<"aloe", " ", "vera">>
  /\ img.count = "3"
  /\ Len(img.response.images) = 3
  /\ img.response.images[3].index = 2
  /\ img.response.images[3].query = <<"aloe", "%20", "vera">>

C27_BoundedCallsAndTermination ==
  /\ [](calls <= 16 /\ cur.n <= 4 /\ retryCount <= 3)
  /\ []((pc = "done") <=> (response # Null))
  /\ [][response # Null => response' = response]_vars
  /\ <>(pc = "done")

C27_Witness ==
  /\ pc = "done"
  /\ calls = 16
  /\ retryCount = 3
  /\ modelIdx = 4
  /\ response.status = 503

\* C28: when plantData is set, it is the identification of the image that
\* is in the image state.
C28_PlantDataIsOfCurrentImage ==
  page.plantData.set => page.plantData.image = page.image

\* C29: when plantImages is not empty, plantData is set and the images were
\* found for the plant it names.
C29_GalleryIsOfCurrentPlant ==
  page.plantImages.n > 0 =>
    /\ page.plantData.set
    /\ page.plantImages.plant = page.plantData.plant

\* C30: a run of handleIdentifyPlant with an image sets loading to true and
\* sends the request, loading stays true while the request is out, and when
\* the request resolves or rejects loading is set to false, on the success
\* path and on every error path; a run without an image sets the error and
\* leaves loading as it is.
C30_LoadingSetAndReset ==
  /\ [](page.run.active => page.loading)
  /\ [][(page'.event = "identify" /\ page.image # 0) =>
          (page'.loading /\ page'.run = [active |-> TRUE, image |-> page.image])]_vars
  /\ [][(page'.event = "identify" /\ page.image = 0) =>
          /\ page'.error = "Please select or capture an image first"
          /\ page'.loading = page.loading
          /\ page'.run = page.run]_vars
  /\ [][(page.run.active /\ ~page'.run.active) => ~page'.loading]_vars
  /\ (page.run.active ~> ~page.loading)

C30_Witness ==
  /\ page.event = "settle"
  /\ page.error = "Failed to fetch"
  /\ ~page.loading
  /\ ~page.run.active
  /\ page.image # 0

====
